---- MODULE Spec2Model ----
(***************************************************************************)
(* Legal move generation core of the chess engine: bitboards as sets of    *)
(* square indices, the attack lookups, the per-position analyzer           *)
(* (MoveGenerator::new / analyze), the move enumerator, make_move and      *)
(* perft.                                                                  *)
(*                                                                         *)
(* A Bitboard64 is modelled as the set of its set bits (a subset of 0..63).*)
(* A Coord (file, rank) on the 8x8 board is modelled by its index          *)
(* rank*8 + file (StandardBoard::to_index / from_index are bijections on   *)
(* valid coordinates).                                                     *)
(***************************************************************************)
EXTENDS Integers, Sequences, FiniteSets, TLC

\* ------------------------------------------------------------------------
\* core/color.rs, core/piece.rs : enum discriminants
\* ------------------------------------------------------------------------
White == 0
Black == 1

Pawn == 0
Knight == 1
Bishop == 2
Rook == 3
Queen == 4
King == 5

\* Option<Piece>::None / Option<Coord>::None
NoPiece == -1
NoSquare == -1

opposite(c) == IF c = White THEN Black ELSE White

\* Piece { piece_type, color } packed into one integer.
PieceNew(pt, c) == c * 6 + pt
piece_type(p) == p % 6
color(p) == p \div 6

\* ------------------------------------------------------------------------
\* movegen/bitboard.rs
\* ------------------------------------------------------------------------
Squares == 0..63
EMPTY == {}
ALL == Squares

from_square(sq) == {sq}
\* Bitboard64::get
get(bb, sq) == sq \in bb
popcount(bb) == Cardinality(bb)
\* Bitboard64::lsb on a non-empty bitboard
lsb(bb) == CHOOSE x \in bb : \A y \in bb : x <= y

\* Bitboard64::iter : squares in ascending order (pop_lsb until empty)
RECURSIVE iter(_)
iter(bb) ==
    IF bb = {} THEN <<>>
    ELSE LET s == lsb(bb) IN <<s>> \o iter(bb \ {s})

file_of(sq) == sq % 8
rank_of(sq) == sq \div 8
InBoard(f, r) == f >= 0 /\ f < 8 /\ r >= 0 /\ r < 8

\* u64 `<< n` and `>> n`: every bit moves by n places and the bits that
\* leave the 64-bit word are lost
shl(bb, n) == {sq + n : sq \in {x \in bb : x + n < 64}}
shr_bits(bb, n) == {sq - n : sq \in {x \in bb : x - n >= 0}}

\* the set bits of a u64 constant given by its bytes, least significant first
bitboard_of(bytes) ==
    {sq \in Squares : (bytes[(sq \div 8) + 1] \div (2 ^ (sq % 8))) % 2 = 1}

\* 0x0101010101010101 and 0x8080808080808080
FILE_A == bitboard_of(<<1, 1, 1, 1, 1, 1, 1, 1>>)
FILE_H == bitboard_of(<<128, 128, 128, 128, 128, 128, 128, 128>>)

north(bb) == shl(bb, 8)
south(bb) == shr_bits(bb, 8)
\* an east shift that keeps what `<< 1` carries onto file a
east_unmasked(bb) == shl(bb, 1)
east(bb) == shl(bb, 1) \cap (Squares \ FILE_A)
west(bb) == shr_bits(bb, 1) \cap (Squares \ FILE_H)

\* ------------------------------------------------------------------------
\* movegen/rays.rs : slow ray casting
\* ------------------------------------------------------------------------
\* ray_attacks: vertical ray, stepping the index by delta (+8 / -8)
RECURSIVE ray_attacks(_, _, _)
ray_attacks(sq, delta, blockers) ==
    LET current == sq + delta IN
    IF current < 0 \/ current >= 64 THEN {}
    ELSE IF current \in blockers THEN {current}
    ELSE {current} \cup ray_attacks(current, delta, blockers)

\* Variant of ray_attacks_horizontal that stops in front of the first blocker
\* and leaves its square out.
RECURSIVE ray_h_short(_, _, _, _)
ray_h_short(rank, current_file, delta, blockers) ==
    LET nf == current_file + delta IN
    IF nf < 0 \/ nf >= 8 THEN {}
    ELSE LET target == rank * 8 + nf IN
         IF target \in blockers THEN {}
         ELSE {target} \cup ray_h_short(rank, nf, delta, blockers)

ray_attacks_horizontal_short(sq, delta, blockers) ==
    ray_h_short(rank_of(sq), file_of(sq), delta, blockers)

\* ray_attacks_horizontal: steps the file, stays on the rank
RECURSIVE ray_h(_, _, _, _)
ray_h(rank, current_file, delta, blockers) ==
    LET nf == current_file + delta IN
    IF nf < 0 \/ nf >= 8 THEN {}
    ELSE LET target == rank * 8 + nf IN
         IF target \in blockers THEN {target}
         ELSE {target} \cup ray_h(rank, nf, delta, blockers)

ray_attacks_horizontal(sq, delta, blockers) ==
    ray_h(rank_of(sq), file_of(sq), delta, blockers)

\* ray_attacks_diagonal: steps file and rank together
RECURSIVE ray_d(_, _, _, _, _)
ray_d(file, rank, file_delta, rank_delta, blockers) ==
    LET nf == file + file_delta
        nr == rank + rank_delta IN
    IF ~InBoard(nf, nr) THEN {}
    ELSE LET target == nr * 8 + nf IN
         IF target \in blockers THEN {target}
         ELSE {target} \cup ray_d(nf, nr, file_delta, rank_delta, blockers)

ray_attacks_diagonal(sq, delta, blockers) ==
    LET file_delta == IF delta = 7 \/ delta = -7 THEN -1 ELSE 1
        rank_delta == IF delta > 0 THEN 1 ELSE -1
    IN ray_d(file_of(sq), rank_of(sq), file_delta, rank_delta, blockers)

rook_attacks_slow(sq, blockers) ==
    ray_attacks(sq, 8, blockers) \cup ray_attacks(sq, -8, blockers)
        \cup ray_attacks_horizontal(sq, 1, blockers)
        \cup ray_attacks_horizontal(sq, -1, blockers)

bishop_attacks_slow(sq, blockers) ==
    ray_attacks_diagonal(sq, 9, blockers) \cup ray_attacks_diagonal(sq, 7, blockers)
        \cup ray_attacks_diagonal(sq, -7, blockers)
        \cup ray_attacks_diagonal(sq, -9, blockers)

\* ------------------------------------------------------------------------
\* movegen/masks.rs : blocker masks
\* ------------------------------------------------------------------------
rook_blocker_mask(sq) ==
    {r * 8 + file_of(sq) : r \in (1..6) \ {rank_of(sq)}}
        \cup {rank_of(sq) * 8 + f : f \in (1..6) \ {file_of(sq)}}

bishop_blocker_mask(sq) ==
    {t \in Squares :
        /\ t # sq
        /\ file_of(t) \in 1..6 /\ rank_of(t) \in 1..6
        /\ \/ file_of(t) - file_of(sq) = rank_of(t) - rank_of(sq)
           \/ file_of(t) - file_of(sq) = rank_of(sq) - rank_of(t)}

ROOK_MASKS == [sq \in Squares |-> rook_blocker_mask(sq)]
BISHOP_MASKS == [sq \in Squares |-> bishop_blocker_mask(sq)]

\* ------------------------------------------------------------------------
\* movegen/magic_constants.rs
\* ------------------------------------------------------------------------
\* A u64 is held as its eight bytes, least significant byte first.
ROOK_MAGICS ==
    <<
      <<128,   0,  64,  32,  16,   0, 128,   0>>,
      << 64,   0,  32,   0,  16,   0,  64,   0>>,
      <<128,   0,  32,   0,  16,   8, 128,   0>>,
      <<128,   0,  16,   0,   8,   4, 128,   0>>,
      <<128,   0,   8,   0,   4,   2, 128,   0>>,
      <<128,   0,   4,   0,   2,   1, 128,   0>>,
      <<  0,   2,   0,   1, 128,   0, 128,   0>>,
      <<  0,   1, 128,  64,  32,   0, 128,   0>>,
      <<128,   0,  64,  32,   0, 128,   0,   0>>,
      <<  0,  80,   0,  32,   0,  64,   0,   0>>,
      <<128,   0,  32,   0,  16, 128,   0,   0>>,
      <<128,   0,  16,   0,   8, 128,   0,   0>>,
      <<128,   0,   8,   0,   4, 128,   0,   0>>,
      <<128,   0,   4,   0,   2, 128,   0,   0>>,
      <<128,   0,   2,   0,   1, 128,   0,   0>>,
      <<  0,   1, 128,  64,   0, 128,   0,   0>>,
      <<128,   0,  64,   0, 128,  32,   0,   0>>,
      <<  0,  16,  32,   0,  64,  64,   0,   0>>,
      <<  0,  32,   0,  16, 128, 128,   0,   0>>,
      <<  0,  16,   0,   8, 128, 128,   0,   0>>,
      <<  0,   8,   0,   4, 128, 128,   0,   0>>,
      <<  0,   4,   0,   2, 128, 128,   0,   0>>,
      <<  4,   0,   2,   0,   1,   1,   0,   0>>,
      <<  4, 129,  64,   0,   0,   2,   0,   0>>,
      <<  0,  64,   0, 128, 128,  32,   0,   0>>,
      <<  0,  80,   0,  64,   0,  32,   0,   0>>,
      <<128,   0,  32, 128,   0,  16,   0,   0>>,
      <<128,   0,  16, 128,   0,   8,   0,   0>>,
      <<128,   0,   8, 128,   0,   4,   0,   0>>,
      <<128,   0,   4, 128,   0,   2,   0,   0>>,
      <<  0,   2, 128, 128,   0,   1,   0,   0>>,
      <<  0,  65,   0, 128,   0, 128,   0,   0>>,
      <<128,   0, 128,   0,  64,  32,   0,   0>>,
      <<  0,  16,  64,  64,   0,  32,   0,   0>>,
      <<  0,  32, 128, 128,   0,  16,   0,   0>>,
      <<  0,  16, 128, 128,   0,   8,   0,   0>>,
      <<  0,   8, 128, 128,   0,   4,   0,   0>>,
      <<  0,   4, 128, 128,   0,   2,   0,   0>>,
      <<  4,   0,   1,   1,   0,   2,   0,   0>>,
      <<  0,   1, 128,  64,   0, 128,   0,   0>>,
      <<  0, 128, 128,   0,  64,  32,   0,   0>>,
      <<128, 128,   0,  64,   0,  32,   0,   0>>,
      <<128, 128,   0,  32,   0,  16,   0,   0>>,
      <<128, 128,   0,  16,   0,   8,   0,   0>>,
      <<128, 128,   0,   8,   0,   4,   0,   0>>,
      <<128, 128,   0,   4,   0,   2,   0,   0>>,
      <<128, 128,   0,   2,   0,   1,   0,   0>>,
      <<  4,   0,   2, 129,  64,   0,   0,   0>>,
      <<128,   0, 128,   0,  64,  32,   0,   0>>,
      <<128, 128,   0,  64,   0,  32,   0,   0>>,
      <<128, 128,   0,  32,   0,  16,   0,   0>>,
      <<128, 128,   0,  16,   0,   8,   0,   0>>,
      <<128, 128,   0,   8,   0,   4,   0,   0>>,
      <<128, 128,   0,   4,   0,   2,   0,   0>>,
      <<128,   0,   2,   0,   1, 128,   0,   0>>,
      <<128,   0,   0,  65,   0, 128,   0,   0>>,
      << 74, 113, 237, 252, 221, 252, 255,   0>>,
      << 74, 113, 237, 252, 221, 252, 127,   0>>,
      <<150, 128, 216, 255, 205, 255,  63,   0>>,
      <<  1,  33,   0,  16,   8,   4,   0,   0>>,
      << 17,   0,   8,   4,   2,   0,   1,   0>>,
      <<  1,   8,   0,   4,   2,   0,   1,   0>>,
      <<  1,   4,   0, 130,   0,   0,   1,   0>>,
      <<162, 209, 250, 171, 250, 255,   1,   0>>
    >>

BISHOP_MAGICS ==
    <<
      <<  0,   2,   2,   2,   2,   2,   2,   0>>,
      <<  0,   0,   2,   2,   2,   2,   2,   0>>,
      <<  0,   0,   0,   2,   2,   1,   4,   0>>,
      <<  0,   0,   0, 128,   0,   4,   4,   0>>,
      <<  0,   0,   0,   0,  64,  16,   1,   0>>,
      <<  0,   0,   0,  64,  16, 130,   0,   0>>,
      <<  0,   0,  64,  16,   4,  65,   0,   0>>,
      <<  0,  64,  16,   4,  65,  16,   0,   0>>,
      <<  0,   4,   4,   4,   4,   4,   0,   0>>,
      <<  0,   2,   2,   2,   2,   2,   0,   0>>,
      <<  0,   0,   2,   2,   1,   4,   0,   0>>,
      <<  0,   0, 128,   0,   4,   4,   0,   0>>,
      <<  0,   0,   0,  64,  16,   1,   0,   0>>,
      <<  0,   0,  64,  16, 130,   0,   0,   0>>,
      <<  0,  64,  16,   4,  65,   0,   0,   0>>,
      <<  0,  32,   8, 130,  32,   0,   0,   0>>,
      <<  0,   8,   8,   8,   8,   0,   4,   0>>,
      <<  0,   4,   4,   4,   4,   0,   2,   0>>,
      <<  0,   2,   2,   2,   2,   0,   1,   0>>,
      <<  0,  64,   0,   2,   8, 128,   0,   0>>,
      <<  0,   0, 160,   0,   4, 128,   0,   0>>,
      <<  0,  64, 136,   0,   1,  32,   0,   0>>,
      <<  0,  32,   8, 130,   0,  64,   0,   0>>,
      <<  0,  16,   4,  65,   0,  32,   0,   0>>,
      <<  0,  16,  16,  16,   0,   8,   2,   0>>,
      <<  0,   8,   8,   8,   0,   4,   1,   0>>,
      <<  0,   4,   1,   4, 128,  32,   0,   0>>,
      <<  0,   2,   1,   4,  64,  64,   0,   0>>,
      <<  0,  32, 128,   0,   0, 132,   0,   0>>,
      <<  0,  16,   1,   2,  64,  64,   0,   0>>,
      <<  0,  16,   4,   1, 128, 128,   0,   0>>,
      <<  0,   8, 130,   0,  64,  64,   0,   0>>,
      <<  0,  32,  32,   0,  16,   4,   1,   0>>,
      <<  0,  16,  16,   0,   8, 130,   0,   0>>,
      <<  0,   8,   8,   0,  68,  16,   0,   0>>,
      <<128,   0,   8, 128,   0,   2,   0,   0>>,
      <<  0,   1,   4,  64,  64,  64,   0,   0>>,
      <<  0,   1,   2,   0, 129, 128,   0,   0>>,
      <<  0,   8,   2,   0,   1,   1,   1,   0>>,
      <<  0,   4,   1, 128, 128, 128,   0,   0>>,
      <<  0,  64,   0,  32,   8, 130,   0,   0>>,
      <<  0,  32,   0,  16,   4,  65,   0,   0>>,
      <<  0,  16,   0, 136,  32,   8,   0,   0>>,
      <<  0,   8,   0,  17,  32,   0,   0,   0>>,
      <<  0,   4,  64,   0,   1,   8,   0,   0>>,
      <<  0,   2,   0,   1,   1,   1,   1,   0>>,
      <<  0,   4,   0,   2,   2,   2,   2,   0>>,
      <<  0,   2,   0,   1,   1,   1,   1,   0>>,
      <<  0,   0,  64,  16,   4,  65,   0,   0>>,
      <<  0,   0,  32,   8, 130,  32,   0,   0>>,
      <<  0,   0,  16, 132,  32,   0,   0,   0>>,
      <<  0,   0, 136,  32,   0,   0,   0,   0>>,
      <<  0,   0,   2,   2,  16,   0,   0,   0>>,
      <<  0,   0,   2,   8,   4,   4,   0,   0>>,
      <<  0,   0,   4,   4,   4,   4,   4,   0>>,
      <<  0,   0,   2,   2,   2,   2,   2,   0>>,
      <<  0,  64,  16,   4,  65,  16,   0,   0>>,
      <<  0,  32,   8, 130,  32,   0,   0,   0>>,
      <<  0,  16, 132,  32,   0,   0,   0,   0>>,
      <<  0, 136,  32,   0,   0,   0,   0,   0>>,
      <<  0,   2,   2,  16,   0,   0,   0,   0>>,
      <<  0,   2,   8,   4,   4,   0,   0,   0>>,
      <<  0,   4,   4,   4,   4,   4,   0,   0>>,
      <<  0,   2,   2,   2,   2,   2,   2,   0>>
    >>

ROOK_SHIFTS ==
    <<
      52, 53, 53, 53, 53, 53, 53, 52, 53, 54, 54, 54, 54, 54, 54, 53,
      53, 54, 54, 54, 54, 54, 54, 53, 53, 54, 54, 54, 54, 54, 54, 53,
      53, 54, 54, 54, 54, 54, 54, 53, 53, 54, 54, 54, 54, 54, 54, 53,
      53, 54, 54, 54, 54, 54, 54, 53, 52, 53, 53, 53, 53, 53, 53, 52
    >>

BISHOP_SHIFTS ==
    <<
      58, 59, 59, 59, 59, 59, 59, 58, 59, 59, 59, 59, 59, 59, 59, 59,
      59, 59, 57, 57, 57, 57, 59, 59, 59, 59, 57, 55, 55, 57, 59, 59,
      59, 59, 57, 55, 55, 57, 59, 59, 59, 59, 57, 57, 57, 57, 59, 59,
      59, 59, 59, 59, 59, 59, 59, 59, 58, 59, 59, 59, 59, 59, 59, 58
    >>

Pow2(n) == 2 ^ n

RECURSIVE offsets_loop(_, _, _, _)
offsets_loop(shifts, sq, offset, acc) ==
    IF sq = 64 THEN <<acc, offset>>
    ELSE offsets_loop(shifts, sq + 1, offset + Pow2(64 - shifts[sq + 1]),
                      Append(acc, offset))

calculate_offsets ==
    LET r == offsets_loop(ROOK_SHIFTS, 0, 0, <<>>)
        b == offsets_loop(BISHOP_SHIFTS, 0, 0, <<>>)
    IN  <<r[1], r[2], b[1], b[2]>>

OFFSETS == calculate_offsets
ROOK_OFFSETS == OFFSETS[1]
ROOK_TABLE_SIZE == OFFSETS[2]
BISHOP_OFFSETS == OFFSETS[3]
BISHOP_TABLE_SIZE == OFFSETS[4]

FancyMagic(mask, magic, shift, offset) ==
    [mask |-> mask, magic |-> magic, shift |-> shift, offset |-> offset]

RECURSIVE fancy_loop(_, _, _, _, _, _)
fancy_loop(masks, magics, shifts, offsets, sq, acc) ==
    IF sq = 64 THEN acc
    ELSE fancy_loop(masks, magics, shifts, offsets, sq + 1,
                    Append(acc, FancyMagic(masks[sq], magics[sq + 1],
                                           shifts[sq + 1], offsets[sq + 1])))

create_fancy_magics ==
    <<fancy_loop(ROOK_MASKS, ROOK_MAGICS, ROOK_SHIFTS, ROOK_OFFSETS, 0, <<>>),
      fancy_loop(BISHOP_MASKS, BISHOP_MAGICS, BISHOP_SHIFTS, BISHOP_OFFSETS,
                 0, <<>>)>>

ROOK_FANCY_MAGICS == create_fancy_magics[1]
BISHOP_FANCY_MAGICS == create_fancy_magics[2]

\* ------------------------------------------------------------------------
\* u64 arithmetic on byte tuples
\* ------------------------------------------------------------------------
\* Bitboard64(pub u64): the u64 whose bit i is set iff square i is in bb.
bits_of(bb) ==
    <<
      (IF 0 \in bb THEN 1 ELSE 0) + (IF 1 \in bb THEN 2 ELSE 0) + (IF 2 \in bb THEN 4 ELSE 0) + (IF 3 \in bb THEN 8 ELSE 0)
        + (IF 4 \in bb THEN 16 ELSE 0) + (IF 5 \in bb THEN 32 ELSE 0) + (IF 6 \in bb THEN 64 ELSE 0) + (IF 7 \in bb THEN 128 ELSE 0),
      (IF 8 \in bb THEN 1 ELSE 0) + (IF 9 \in bb THEN 2 ELSE 0) + (IF 10 \in bb THEN 4 ELSE 0) + (IF 11 \in bb THEN 8 ELSE 0)
        + (IF 12 \in bb THEN 16 ELSE 0) + (IF 13 \in bb THEN 32 ELSE 0) + (IF 14 \in bb THEN 64 ELSE 0) + (IF 15 \in bb THEN 128 ELSE 0),
      (IF 16 \in bb THEN 1 ELSE 0) + (IF 17 \in bb THEN 2 ELSE 0) + (IF 18 \in bb THEN 4 ELSE 0) + (IF 19 \in bb THEN 8 ELSE 0)
        + (IF 20 \in bb THEN 16 ELSE 0) + (IF 21 \in bb THEN 32 ELSE 0) + (IF 22 \in bb THEN 64 ELSE 0) + (IF 23 \in bb THEN 128 ELSE 0),
      (IF 24 \in bb THEN 1 ELSE 0) + (IF 25 \in bb THEN 2 ELSE 0) + (IF 26 \in bb THEN 4 ELSE 0) + (IF 27 \in bb THEN 8 ELSE 0)
        + (IF 28 \in bb THEN 16 ELSE 0) + (IF 29 \in bb THEN 32 ELSE 0) + (IF 30 \in bb THEN 64 ELSE 0) + (IF 31 \in bb THEN 128 ELSE 0),
      (IF 32 \in bb THEN 1 ELSE 0) + (IF 33 \in bb THEN 2 ELSE 0) + (IF 34 \in bb THEN 4 ELSE 0) + (IF 35 \in bb THEN 8 ELSE 0)
        + (IF 36 \in bb THEN 16 ELSE 0) + (IF 37 \in bb THEN 32 ELSE 0) + (IF 38 \in bb THEN 64 ELSE 0) + (IF 39 \in bb THEN 128 ELSE 0),
      (IF 40 \in bb THEN 1 ELSE 0) + (IF 41 \in bb THEN 2 ELSE 0) + (IF 42 \in bb THEN 4 ELSE 0) + (IF 43 \in bb THEN 8 ELSE 0)
        + (IF 44 \in bb THEN 16 ELSE 0) + (IF 45 \in bb THEN 32 ELSE 0) + (IF 46 \in bb THEN 64 ELSE 0) + (IF 47 \in bb THEN 128 ELSE 0),
      (IF 48 \in bb THEN 1 ELSE 0) + (IF 49 \in bb THEN 2 ELSE 0) + (IF 50 \in bb THEN 4 ELSE 0) + (IF 51 \in bb THEN 8 ELSE 0)
        + (IF 52 \in bb THEN 16 ELSE 0) + (IF 53 \in bb THEN 32 ELSE 0) + (IF 54 \in bb THEN 64 ELSE 0) + (IF 55 \in bb THEN 128 ELSE 0),
      (IF 56 \in bb THEN 1 ELSE 0) + (IF 57 \in bb THEN 2 ELSE 0) + (IF 58 \in bb THEN 4 ELSE 0) + (IF 59 \in bb THEN 8 ELSE 0)
        + (IF 60 \in bb THEN 16 ELSE 0) + (IF 61 \in bb THEN 32 ELSE 0) + (IF 62 \in bb THEN 64 ELSE 0) + (IF 63 \in bb THEN 128 ELSE 0)
    >>

\* u64::wrapping_mul: long multiplication byte by byte; the carry out of
\* byte 7 is dropped, which is the reduction modulo 2^64.
wrapping_mul(a, m) ==
    LET c0 == a[1] * m[1]
        c1 == c0 \div 256 + a[1] * m[2] + a[2] * m[1]
        c2 == c1 \div 256 + a[1] * m[3] + a[2] * m[2] + a[3] * m[1]
        c3 == c2 \div 256 + a[1] * m[4] + a[2] * m[3] + a[3] * m[2]
                          + a[4] * m[1]
        c4 == c3 \div 256 + a[1] * m[5] + a[2] * m[4] + a[3] * m[3]
                          + a[4] * m[2] + a[5] * m[1]
        c5 == c4 \div 256 + a[1] * m[6] + a[2] * m[5] + a[3] * m[4]
                          + a[4] * m[3] + a[5] * m[2] + a[6] * m[1]
        c6 == c5 \div 256 + a[1] * m[7] + a[2] * m[6] + a[3] * m[5]
                          + a[4] * m[4] + a[5] * m[3] + a[6] * m[2]
                          + a[7] * m[1]
        c7 == c6 \div 256 + a[1] * m[8] + a[2] * m[7] + a[3] * m[6]
                          + a[4] * m[5] + a[5] * m[4] + a[6] * m[3]
                          + a[7] * m[2] + a[8] * m[1]
    IN  <<c0 % 256, c1 % 256, c2 % 256, c3 % 256,
          c4 % 256, c5 % 256, c6 % 256, c7 % 256>>

RECURSIVE high_bytes(_, _)
high_bytes(x, k) == IF k > 7 THEN 0 ELSE x[k + 1] + 256 * high_bytes(x, k + 1)

\* x >> shift for shift in 40..63, where the result is below 2^24.
shr(x, shift) == high_bytes(x, shift \div 8) \div Pow2(shift % 8)

\* ------------------------------------------------------------------------
\* movegen/rays.rs : blocker_permutations
\* ------------------------------------------------------------------------
\* the closure of the map: the blockers of subset number index, bit n of the
\* index deciding the n-th square of the mask
blockers_at(squares, index) ==
    {squares[bit + 1] :
        bit \in {n \in 0..(Len(squares) - 1) : (index \div Pow2(n)) % 2 = 1}}

\* (lo..=hi).map(..), in order
RECURSIVE permutations_range(_, _, _)
permutations_range(squares, lo, hi) ==
    IF lo = hi THEN <<blockers_at(squares, lo)>>
    ELSE LET mid == (lo + hi) \div 2
         IN  permutations_range(squares, lo, mid)
                 \o permutations_range(squares, mid + 1, hi)

blocker_permutations(mask) ==
    LET squares == iter(mask)
        n == Len(squares)
        total == Pow2(n)
    IN  permutations_range(squares, 0, total - 1)

\* ------------------------------------------------------------------------
\* movegen/attacks.rs : attack tables
\* ------------------------------------------------------------------------
\* the index without the multiplication by the magic number
magic_index_unmultiplied(blockers, magic, shift) ==
    shr(bits_of(blockers), shift)

magic_index(blockers, magic, shift) ==
    shr(wrapping_mul(bits_of(blockers), magic), shift)

RECURSIVE zeroed(_)
zeroed(n) ==
    IF n = 1 THEN <<EMPTY>> ELSE zeroed(n \div 2) \o zeroed(n - n \div 2)

\* The Vec is held as one segment per square: segment sq covers the table
\* indices offset[sq] .. offset[sq] + 2^(64 - shift[sq]) - 1.  A magic index
\* is below 2^(64 - shift) and calculate_offsets advances by exactly that
\* amount, so fm.offset + index always lies in the segment of its square.
RECURSIVE table_new(_, _, _)
table_new(shifts, lo, hi) ==
    IF lo = hi THEN <<zeroed(Pow2(64 - shifts[lo + 1]))>>
    ELSE LET mid == (lo + hi) \div 2
         IN  table_new(shifts, lo, mid) \o table_new(shifts, mid + 1, hi)

RECURSIVE rook_blockers_loop(_, _, _, _, _, _)
rook_blockers_loop(sq, fm, perms, lo, hi, segment) ==
    IF lo = hi
    THEN LET blockers == perms[lo]
             attacks == rook_attacks_slow(sq, blockers)
             index == magic_index(blockers, fm.magic, fm.shift)
         IN  [segment EXCEPT ![index + 1] = attacks]
    ELSE LET mid == (lo + hi) \div 2
             done == rook_blockers_loop(sq, fm, perms, lo, mid, segment)
         IN  IF Len(done) = Len(segment)
             THEN rook_blockers_loop(sq, fm, perms, mid + 1, hi, done)
             ELSE done

RECURSIVE rook_squares_loop(_, _, _, _)
rook_squares_loop(fms, lo, hi, table) ==
    IF lo = hi
    THEN LET fm == fms[lo + 1]
             perms == blocker_permutations(fm.mask)
         IN  [table EXCEPT ![lo + 1] =
                 rook_blockers_loop(lo, fm, perms, 1, Len(perms), @)]
    ELSE LET mid == (lo + hi) \div 2
             done == rook_squares_loop(fms, lo, mid, table)
         IN  IF Len(done) = Len(table)
             THEN rook_squares_loop(fms, mid + 1, hi, done)
             ELSE done

init_rook_attacks ==
    rook_squares_loop(ROOK_FANCY_MAGICS, 0, 63, table_new(ROOK_SHIFTS, 0, 63))

RECURSIVE bishop_blockers_loop(_, _, _, _, _, _)
bishop_blockers_loop(sq, fm, perms, lo, hi, segment) ==
    IF lo = hi
    THEN LET blockers == perms[lo]
             attacks == bishop_attacks_slow(sq, blockers)
             index == magic_index(blockers, fm.magic, fm.shift)
         IN  [segment EXCEPT ![index + 1] = attacks]
    ELSE LET mid == (lo + hi) \div 2
             done == bishop_blockers_loop(sq, fm, perms, lo, mid, segment)
         IN  IF Len(done) = Len(segment)
             THEN bishop_blockers_loop(sq, fm, perms, mid + 1, hi, done)
             ELSE done

RECURSIVE bishop_squares_loop(_, _, _, _)
bishop_squares_loop(fms, lo, hi, table) ==
    IF lo = hi
    THEN LET fm == fms[lo + 1]
             perms == blocker_permutations(fm.mask)
         IN  [table EXCEPT ![lo + 1] =
                 bishop_blockers_loop(lo, fm, perms, 1, Len(perms), @)]
    ELSE LET mid == (lo + hi) \div 2
             done == bishop_squares_loop(fms, lo, mid, table)
         IN  IF Len(done) = Len(table)
             THEN bishop_squares_loop(fms, mid + 1, hi, done)
             ELSE done

init_bishop_attacks ==
    bishop_squares_loop(BISHOP_FANCY_MAGICS, 0, 63, table_new(BISHOP_SHIFTS, 0, 63))

\* the lookup in the table that get_or_init returned
rook_lookup(table, sq, occupied) ==
    LET fm == ROOK_FANCY_MAGICS[sq + 1]
        blockers == occupied \cap fm.mask
        index == magic_index(blockers, fm.magic, fm.shift)
    IN  table[sq + 1][index + 1]

\* ROOK_ATTACKS.get_or_init(init_rook_attacks) is the table init_rook_attacks
\* returns (SpecOnce has the steps of get_or_init)
rook_attacks(sq, occupied) == rook_lookup(init_rook_attacks, sq, occupied)

\* the lookup with the occupancy left out of the index
bishop_attacks_unblocked(sq, occupied) ==
    LET table == init_bishop_attacks
        fm == BISHOP_FANCY_MAGICS[sq + 1]
        index == magic_index(EMPTY, fm.magic, fm.shift)
    IN  table[sq + 1][index + 1]

bishop_lookup(table, sq, occupied) ==
    LET fm == BISHOP_FANCY_MAGICS[sq + 1]
        blockers == occupied \cap fm.mask
        index == magic_index(blockers, fm.magic, fm.shift)
    IN  table[sq + 1][index + 1]

bishop_attacks(sq, occupied) == bishop_lookup(init_bishop_attacks, sq, occupied)

queen_attacks(sq, occupied) ==
    rook_attacks(sq, occupied) \cup bishop_attacks(sq, occupied)

KnightDeltas ==
    {<<1, 2>>, <<2, 1>>, <<-1, 2>>, <<-2, 1>>, <<1, -2>>, <<2, -1>>, <<-1, -2>>, <<-2, -1>>}

init_knight_attacks ==
    [sq \in Squares |->
        {(rank_of(sq) + d[2]) * 8 + file_of(sq) + d[1] :
            d \in {e \in KnightDeltas : InBoard(file_of(sq) + e[1], rank_of(sq) + e[2])}}]

KingDeltas == {d \in {-1, 0, 1} \X {-1, 0, 1} : d # <<0, 0>>}

init_king_attacks ==
    [sq \in Squares |->
        {(rank_of(sq) + d[2]) * 8 + file_of(sq) + d[1] :
            d \in {e \in KingDeltas : InBoard(file_of(sq) + e[1], rank_of(sq) + e[2])}}]

init_pawn_attacks ==
    [c \in {White, Black} |-> [sq \in Squares |->
        IF c = White
        THEN IF rank_of(sq) < 7
             THEN (IF file_of(sq) > 0 THEN {sq + 7} ELSE {})
                  \cup (IF file_of(sq) < 7 THEN {sq + 9} ELSE {})
             ELSE {}
        ELSE IF rank_of(sq) > 0
             THEN (IF file_of(sq) > 0 THEN {sq - 9} ELSE {})
                  \cup (IF file_of(sq) < 7 THEN {sq - 7} ELSE {})
             ELSE {}]]

knight_attacks(sq) == init_knight_attacks[sq]
king_attacks(sq) == init_king_attacks[sq]
pawn_attacks(sq, c) == init_pawn_attacks[c][sq]

\* ------------------------------------------------------------------------
\* core/board.rs : Board { squares, occupied, white_pieces, black_pieces }
\* ------------------------------------------------------------------------
BoardEmpty ==
    [squares |-> [i \in Squares |-> NoPiece],
     occupied |-> EMPTY, white_pieces |-> EMPTY, black_pieces |-> EMPTY]

piece_at(b, sq) == b.squares[sq]

set_piece(b, sq, piece) ==
    [squares |-> [b.squares EXCEPT ![sq] = piece],
     occupied |-> b.occupied \cup {sq},
     white_pieces |-> IF color(piece) = White THEN b.white_pieces \cup {sq}
                      ELSE b.white_pieces,
     black_pieces |-> IF color(piece) = Black THEN b.black_pieces \cup {sq}
                      ELSE b.black_pieces]

\* remove_piece: the board afterwards (the removed piece is piece_at before)
remove_piece(b, sq) ==
    LET p == b.squares[sq] IN
    IF p = NoPiece THEN b
    ELSE [squares |-> [b.squares EXCEPT ![sq] = NoPiece],
          occupied |-> b.occupied \ {sq},
          white_pieces |-> IF color(p) = White THEN b.white_pieces \ {sq}
                           ELSE b.white_pieces,
          black_pieces |-> IF color(p) = Black THEN b.black_pieces \ {sq}
                           ELSE b.black_pieces]

\* move_piece: `remove_piece(from)?` returns early on an empty from-square
move_piece(b, from, to) ==
    IF b.squares[from] = NoPiece THEN b
    ELSE set_piece(remove_piece(remove_piece(b, from), to), to, b.squares[from])

\* what move_piece returns: the captured piece, if any
move_piece_captured(b, from, to) ==
    IF b.squares[from] = NoPiece THEN NoPiece ELSE remove_piece(b, from).squares[to]

pieces_of_color(b, c) == IF c = White THEN b.white_pieces ELSE b.black_pieces

\* find_king: first square (ascending) holding the king of colour c, or None
KingSquares(b, c) == {sq \in Squares : b.squares[sq] = PieceNew(King, c)}
find_king(b, c) == IF KingSquares(b, c) = {} THEN NoSquare ELSE lsb(KingSquares(b, c))

\* Board::pieces : occupied squares of the array, ascending
pieces(b) == iter({sq \in Squares : b.squares[sq] # NoPiece})

\* ------------------------------------------------------------------------
\* core/moves.rs : Move { from, to, flags }
\* ------------------------------------------------------------------------
Normal == "Normal"
DoublePawnPush == "DoublePawnPush"
EnPassant == "EnPassant"
CastleKingside == "CastleKingside"
CastleQueenside == "CastleQueenside"
\* MoveFlags::Promotion { piece }
Promotion(pt) ==
    CASE pt = Queen -> "PromotionQueen"
      [] pt = Rook -> "PromotionRook"
      [] pt = Bishop -> "PromotionBishop"
      [] pt = Knight -> "PromotionKnight"

PromotionFlags == {Promotion(Queen), Promotion(Rook), Promotion(Bishop), Promotion(Knight)}

promoted_piece(mv) ==
    CASE mv.flags = "PromotionQueen" -> Queen
      [] mv.flags = "PromotionRook" -> Rook
      [] mv.flags = "PromotionBishop" -> Bishop
      [] mv.flags = "PromotionKnight" -> Knight

MoveNew(from, to) == [from |-> from, to |-> to, flags |-> Normal]
with_flags(from, to, flags) == [from |-> from, to |-> to, flags |-> flags]
MovePromotion(from, to, pt) == [from |-> from, to |-> to, flags |-> Promotion(pt)]

is_castling(mv) == mv.flags = CastleKingside \/ mv.flags = CastleQueenside
is_en_passant(mv) == mv.flags = EnPassant
is_promotion(mv) == mv.flags \in PromotionFlags

\* ------------------------------------------------------------------------
\* core/gamestate.rs : GameState
\* ------------------------------------------------------------------------
\* halfmove_clock and fullmove_number are u32: a u32 is kept as its two
\* 16-bit halves <<high, low>>, its value being high * 65536 + low
U32_MAX == <<65535, 65535>>

\* `x += 1` on a u32 x without overflow checks (the release profile): the sum
\* modulo 2^32, so U32_MAX wraps to 0
wrapping_add_one(x) ==
    IF x[2] < 65535 THEN <<x[1], x[2] + 1>>
    ELSE IF x[1] < 65535 THEN <<x[1] + 1, 0>>
    ELSE <<0, 0>>

\* `x += 1` on a u32 x with overflow checks (the debug profile) panics with
\* "attempt to add with overflow" exactly when x is u32::MAX
add_one_overflows(x) == x = U32_MAX

CastlingNONE == [kingside |-> FALSE, queenside |-> FALSE]
CastlingBOTH == [kingside |-> TRUE, queenside |-> TRUE]

castling_rights(g, c) == IF c = White THEN g.white_castling ELSE g.black_castling

make_castling(g, mv) ==
    LET b1 == move_piece(g.board, mv.from, mv.to)
        rook_from == IF file_of(mv.to) = 6 THEN 7 + 8 * rank_of(mv.from)
                     ELSE 0 + 8 * rank_of(mv.from)
        rook_to == IF file_of(mv.to) = 6 THEN 5 + 8 * rank_of(mv.from)
                   ELSE 3 + 8 * rank_of(mv.from)
    IN [g EXCEPT !.board = move_piece(b1, rook_from, rook_to),
                 !.halfmove_clock = wrapping_add_one(g.halfmove_clock)]

\* make_castling panics at `self.halfmove_clock += 1` (overflow checks on)
make_castling_panics(g, mv) == add_one_overflows(g.halfmove_clock)

make_en_passant(g, mv) ==
    LET b1 == move_piece(g.board, mv.from, mv.to)
        captured_coord == rank_of(mv.from) * 8 + file_of(mv.to)
    IN [g EXCEPT !.board = remove_piece(b1, captured_coord),
                 !.halfmove_clock = <<0, 0>>]

\* the closure update_rook_rights(coord, rights)
update_rook_rights(coord, rights) ==
    IF rank_of(coord) = 0 \/ rank_of(coord) = 7
    THEN IF file_of(coord) = 0 THEN [rights EXCEPT !.queenside = FALSE]
         ELSE IF file_of(coord) = 7 THEN [rights EXCEPT !.kingside = FALSE]
         ELSE rights
    ELSE rights

update_castling_rights(g, mv) ==
    LET p == piece_at(g.board, mv.to)
        g1 == IF p # NoPiece /\ piece_type(p) = King
              THEN IF color(p) = White THEN [g EXCEPT !.white_castling = CastlingNONE]
                   ELSE [g EXCEPT !.black_castling = CastlingNONE]
              ELSE g
    IN IF p # NoPiece /\ piece_type(p) = Rook
       THEN IF color(p) = White
            THEN [g1 EXCEPT !.white_castling = update_rook_rights(mv.from, g1.white_castling)]
            ELSE [g1 EXCEPT !.black_castling = update_rook_rights(mv.from, g1.black_castling)]
       ELSE g1

\* the non-castling, non-en-passant branch of make_move
make_normal(g, mv) ==
    LET captured == move_piece_captured(g.board, mv.from, mv.to)
        b1 == move_piece(g.board, mv.from, mv.to)
        b2 == IF is_promotion(mv) /\ piece_at(b1, mv.to) # NoPiece
              THEN set_piece(b1, mv.to,
                             PieceNew(promoted_piece(mv), color(piece_at(b1, mv.to))))
              ELSE b1
        reset == captured # NoPiece
                 \/ (piece_at(b2, mv.to) # NoPiece
                     /\ piece_type(piece_at(b2, mv.to)) = Pawn)
    IN [g EXCEPT !.board = b2,
                 !.halfmove_clock = IF reset THEN <<0, 0>>
                                    ELSE wrapping_add_one(g.halfmove_clock)]

\* the non-castling, non-en-passant branch panics at `self.halfmove_clock += 1`
\* (overflow checks on): the else branch of the capture-or-pawn-move test
make_normal_panics(g, mv) ==
    LET captured == move_piece_captured(g.board, mv.from, mv.to)
        b1 == move_piece(g.board, mv.from, mv.to)
        b2 == IF is_promotion(mv) /\ piece_at(b1, mv.to) # NoPiece
              THEN set_piece(b1, mv.to,
                             PieceNew(promoted_piece(mv), color(piece_at(b1, mv.to))))
              ELSE b1
        reset == captured # NoPiece
                 \/ (piece_at(b2, mv.to) # NoPiece
                     /\ piece_type(piece_at(b2, mv.to)) = Pawn)
    IN ~reset /\ add_one_overflows(g.halfmove_clock)

\* Variant of the en passant update that does not look at the piece type.
new_en_passant_any_piece(g, mv) ==
    LET p == piece_at(g.board, mv.to)
        diff == rank_of(mv.to) - rank_of(mv.from)
        rank_diff == IF diff < 0 THEN -diff ELSE diff
    IN IF p # NoPiece /\ rank_diff = 2
       THEN ((rank_of(mv.from) + rank_of(mv.to)) \div 2) * 8 + file_of(mv.from)
       ELSE NoSquare

\* the en passant target after the move
new_en_passant(g, mv) ==
    LET p == piece_at(g.board, mv.to)
        diff == rank_of(mv.to) - rank_of(mv.from)
        rank_diff == IF diff < 0 THEN -diff ELSE diff
    IN IF p # NoPiece /\ piece_type(p) = Pawn /\ rank_diff = 2
       THEN ((rank_of(mv.from) + rank_of(mv.to)) \div 2) * 8 + file_of(mv.from)
       ELSE NoSquare

make_move(g, mv) ==
    LET g1 == IF is_castling(mv) THEN make_castling(g, mv)
              ELSE IF is_en_passant(mv) THEN make_en_passant(g, mv)
              ELSE make_normal(g, mv)
        g2 == [g1 EXCEPT !.en_passant = new_en_passant(g1, mv)]
        g3 == update_castling_rights(g2, mv)
        stm == opposite(g3.side_to_move)
    IN [g3 EXCEPT !.side_to_move = stm,
                  !.fullmove_number = IF stm = White
                                      THEN wrapping_add_one(g3.fullmove_number)
                                      ELSE g3.fullmove_number]

\* make_move panics (overflow checks on) at the first `+= 1` that overflows:
\* the halfmove clock in make_castling or in the normal branch, or the
\* fullmove number after Black has moved
make_move_panics(g, mv) ==
    \/ IF is_castling(mv) THEN make_castling_panics(g, mv)
       ELSE IF is_en_passant(mv) THEN FALSE
       ELSE make_normal_panics(g, mv)
    \/ /\ opposite(g.side_to_move) = White
       /\ add_one_overflows(g.fullmove_number)

\* ------------------------------------------------------------------------
\* movegen/legal_moves.rs : MoveGenerator (position analyzer)
\* ------------------------------------------------------------------------
\* DIRECTIONS, as (df, dr), in the order of the source
DIRECTIONS ==
    << <<0, 1>>, <<0, -1>>, <<1, 0>>, <<-1, 0>>, <<1, 1>>, <<1, -1>>, <<-1, 1>>, <<-1, -1>> >>

\* attack set of one enemy piece inside compute_enemy_attacks
piece_attacks(p, sq, occupied_no_king) ==
    CASE piece_type(p) = Pawn -> pawn_attacks(sq, color(p))
      [] piece_type(p) = Knight -> knight_attacks(sq)
      [] piece_type(p) = Bishop -> bishop_attacks(sq, occupied_no_king)
      [] piece_type(p) = Rook -> rook_attacks(sq, occupied_no_king)
      [] piece_type(p) = Queen -> queen_attacks(sq, occupied_no_king)
      [] piece_type(p) = King -> king_attacks(sq)

\* Variant of compute_enemy_attacks that leaves the king on the board, so a
\* slider's attack stops on the king.
compute_enemy_attacks_king_blocks(g, c, occupied, king_sq) ==
    UNION {piece_attacks(g.board.squares[sq], sq, occupied) :
             sq \in {t \in Squares : /\ g.board.squares[t] # NoPiece
                                     /\ color(g.board.squares[t]) = opposite(c)}}

compute_enemy_attacks(g, c, occupied, king_sq) ==
    LET occupied_no_king == occupied \ {king_sq}
    IN UNION {piece_attacks(g.board.squares[sq], sq, occupied_no_king) :
                sq \in {t \in Squares : /\ g.board.squares[t] # NoPiece
                                        /\ color(g.board.squares[t]) = opposite(c)}}

\* Variant of compute_checkers that reads the pawn table of the enemy's colour
\* from the king square (the reverse lookup needs our own colour's table).
compute_checkers_enemy_pawn_table(g, c, occupied, king_sq) ==
    LET enemy_color == opposite(c)
        IsEnemy(sq, types) ==
            /\ g.board.squares[sq] # NoPiece
            /\ color(g.board.squares[sq]) = enemy_color
            /\ piece_type(g.board.squares[sq]) \in types
    IN {sq \in pawn_attacks(king_sq, enemy_color) : IsEnemy(sq, {Pawn})}
       \cup {sq \in knight_attacks(king_sq) : IsEnemy(sq, {Knight})}
       \cup {sq \in bishop_attacks(king_sq, occupied) : IsEnemy(sq, {Bishop, Queen})}
       \cup {sq \in rook_attacks(king_sq, occupied) : IsEnemy(sq, {Rook, Queen})}

\* Variant of compute_checkers that leaves out the knight lookup.
compute_checkers_no_knights(g, c, occupied, king_sq) ==
    LET enemy_color == opposite(c)
        IsEnemy(sq, types) ==
            /\ g.board.squares[sq] # NoPiece
            /\ color(g.board.squares[sq]) = enemy_color
            /\ piece_type(g.board.squares[sq]) \in types
    IN {sq \in pawn_attacks(king_sq, c) : IsEnemy(sq, {Pawn})}
       \cup {sq \in bishop_attacks(king_sq, occupied) : IsEnemy(sq, {Bishop, Queen})}
       \cup {sq \in rook_attacks(king_sq, occupied) : IsEnemy(sq, {Rook, Queen})}

\* the checkers bitboard of compute_checkers (reverse attacks from the king)
compute_checkers(g, c, occupied, king_sq) ==
    LET enemy_color == opposite(c)
        IsEnemy(sq, types) ==
            /\ g.board.squares[sq] # NoPiece
            /\ color(g.board.squares[sq]) = enemy_color
            /\ piece_type(g.board.squares[sq]) \in types
    IN {sq \in pawn_attacks(king_sq, c) : IsEnemy(sq, {Pawn})}
       \cup {sq \in knight_attacks(king_sq) : IsEnemy(sq, {Knight})}
       \cup {sq \in bishop_attacks(king_sq, occupied) : IsEnemy(sq, {Bishop, Queen})}
       \cup {sq \in rook_attacks(king_sq, occupied) : IsEnemy(sq, {Rook, Queen})}

\* between_squares(sq1, sq2): squares strictly between, walking from sq1
signum(x) == IF x > 0 THEN 1 ELSE IF x < 0 THEN -1 ELSE 0

RECURSIVE between_walk(_, _, _, _, _, _)
between_walk(f, r, f2, r2, df, dr) ==
    IF f = f2 /\ r = r2 THEN {}
    ELSE IF ~InBoard(f, r) THEN {}
    ELSE {r * 8 + f} \cup between_walk(f + df, r + dr, f2, r2, df, dr)

between_squares(sq1, sq2) ==
    LET df == signum(file_of(sq2) - file_of(sq1))
        dr == signum(rank_of(sq2) - rank_of(sq1))
    IN between_walk(file_of(sq1) + df, rank_of(sq1) + dr, file_of(sq2), rank_of(sq2), df, dr)

\* Variant of the check mask that allows only the capture of the checker,
\* never a block between a sliding checker and the king.
compute_check_mask_capture_only(g, checkers, king_sq) ==
    IF popcount(checkers) = 0 THEN ALL
    ELSE IF popcount(checkers) = 1 THEN {lsb(checkers)}
    ELSE EMPTY

\* Variant of the check mask that restricts nothing in a double check.
compute_check_mask_open_in_double_check(g, checkers, king_sq) ==
    IF popcount(checkers) = 1
    THEN LET checker_sq == lsb(checkers)
             p == g.board.squares[checker_sq]
         IN IF p # NoPiece /\ piece_type(p) \in {Bishop, Rook, Queen}
            THEN {checker_sq} \cup between_squares(checker_sq, king_sq)
            ELSE {checker_sq}
    ELSE ALL

\* the check mask part of compute_checkers
compute_check_mask(g, checkers, king_sq) ==
    IF popcount(checkers) = 0 THEN ALL
    ELSE IF popcount(checkers) = 1
    THEN LET checker_sq == lsb(checkers)
             p == g.board.squares[checker_sq]
         IN IF p # NoPiece /\ piece_type(p) \in {Bishop, Rook, Queen}
            THEN {checker_sq} \cup between_squares(checker_sq, king_sq)
            ELSE {checker_sq}
    ELSE EMPTY

\* Variant of the walk that takes every enemy bishop, rook or queen for a
\* pinner, whatever the direction of the ray.
RECURSIVE pin_walk_any_slider(_, _, _, _, _, _, _, _, _, _)
pin_walk_any_slider(g, c, occupied, king_sq, f, r, df, dr, ray, pinned_sq) ==
    IF ~InBoard(f, r) THEN <<NoSquare, {}>>
    ELSE
      LET sq == r * 8 + f
          ray1 == ray \cup {sq}
          p == g.board.squares[sq]
      IN IF sq \in occupied /\ p # NoPiece
         THEN IF color(p) = c
              THEN IF pinned_sq # NoSquare THEN <<NoSquare, {}>>
                   ELSE pin_walk_any_slider(g, c, occupied, king_sq, f + df, r + dr,
                                            df, dr, ray1, sq)
              ELSE IF piece_type(p) \in {Bishop, Rook, Queen} /\ pinned_sq # NoSquare
                   THEN <<pinned_sq, ray1 \cup {king_sq}>>
                   ELSE <<NoSquare, {}>>
         ELSE pin_walk_any_slider(g, c, occupied, king_sq, f + df, r + dr,
                                  df, dr, ray1, pinned_sq)

\* one direction of compute_pins: the walk of the while loop from (f, r).
\* Returns <<pinned square, its mask>> or <<NoSquare, {}>> when nothing is pinned.
RECURSIVE pin_walk(_, _, _, _, _, _, _, _, _, _)
pin_walk(g, c, occupied, king_sq, f, r, df, dr, ray, pinned_sq) ==
    IF ~InBoard(f, r) THEN <<NoSquare, {}>>
    ELSE
      LET sq == r * 8 + f
          ray1 == ray \cup {sq}
          p == g.board.squares[sq]
      IN IF sq \in occupied /\ p # NoPiece
         THEN IF color(p) = c
              THEN IF pinned_sq # NoSquare THEN <<NoSquare, {}>>
                   ELSE pin_walk(g, c, occupied, king_sq, f + df, r + dr, df, dr, ray1, sq)
              ELSE LET is_pinner ==
                           IF df = 0 \/ dr = 0
                           THEN piece_type(p) = Rook \/ piece_type(p) = Queen
                           ELSE piece_type(p) = Bishop \/ piece_type(p) = Queen
                   IN IF is_pinner /\ pinned_sq # NoSquare
                      THEN <<pinned_sq, ray1 \cup {king_sq}>>
                      ELSE <<NoSquare, {}>>
         ELSE pin_walk(g, c, occupied, king_sq, f + df, r + dr, df, dr, ray1, pinned_sq)

\* compute_pins: the pin_masks array after the eight directions
RECURSIVE pins_loop(_, _, _, _, _, _)
pins_loop(g, c, occupied, king_sq, i, masks) ==
    IF i > Len(DIRECTIONS) THEN masks
    ELSE LET w == pin_walk(g, c, occupied, king_sq,
                           file_of(king_sq) + DIRECTIONS[i][1],
                           rank_of(king_sq) + DIRECTIONS[i][2],
                           DIRECTIONS[i][1], DIRECTIONS[i][2], EMPTY, NoSquare)
         IN pins_loop(g, c, occupied, king_sq, i + 1,
                      IF w[1] = NoSquare THEN masks ELSE [masks EXCEPT ![w[1]] = w[2]])

compute_pins(g, c, occupied, king_sq) ==
    pins_loop(g, c, occupied, king_sq, 1, [sq \in Squares |-> ALL])

\* MoveGenerator::new followed by analyze()
MoveGeneratorNew(g) ==
    LET c == g.side_to_move
        occupied == g.board.occupied
        king_sq == find_king(g.board, c)
        checkers == compute_checkers(g, c, occupied, king_sq)
    IN [color |-> c,
        occupied |-> occupied,
        us |-> pieces_of_color(g.board, c),
        them |-> pieces_of_color(g.board, opposite(c)),
        king_sq |-> king_sq,
        enemy_attacks |-> compute_enemy_attacks(g, c, occupied, king_sq),
        checkers |-> checkers,
        check_mask |-> compute_check_mask(g, checkers, king_sq),
        pin_masks |-> compute_pins(g, c, occupied, king_sq)]

in_check(gen) == gen.checkers # {}
in_double_check(gen) == popcount(gen.checkers) > 1

\* ------------------------------------------------------------------------
\* movegen/legal_moves.rs : move enumerator (moves are pushed to a Vec: a
\* sequence, in the order of the source)
\* ------------------------------------------------------------------------
RECURSIVE ConcatTo(_, _)
ConcatTo(ss, n) == IF n = 0 THEN <<>> ELSE ConcatTo(ss, n - 1) \o ss[n]
\* the pushes of a loop whose i-th iteration pushes ss[i]
Concat(ss) == ConcatTo(ss, Len(ss))

\* a promotion loop that pushes the queen promotion only
promotions_queen_only(from, to) == << MovePromotion(from, to, Queen) >>

\* the four pushes `for promo in [Queen, Rook, Bishop, Knight]`
promotions(from, to) ==
    << MovePromotion(from, to, Queen), MovePromotion(from, to, Rook),
       MovePromotion(from, to, Bishop), MovePromotion(from, to, Knight) >>

\* an en-passant test that accepts every capture
is_en_passant_legal_unchecked(g, gen, pawn_sq, ep_sq) == TRUE

\* is_en_passant_legal
is_en_passant_legal(g, gen, pawn_sq, ep_sq) ==
    LET forward == IF gen.color = White THEN 8 ELSE -8
        captured_sq == ep_sq - forward
        new_occupied == ((gen.occupied \ {pawn_sq}) \ {captured_sq}) \cup {ep_sq}
        enemy_color == opposite(gen.color)
    IN ~ \E sq \in rook_attacks(gen.king_sq, new_occupied) :
            /\ g.board.squares[sq] # NoPiece
            /\ color(g.board.squares[sq]) = enemy_color
            /\ piece_type(g.board.squares[sq]) \in {Rook, Queen}

\* Variant of pawn_moves_from whose double push tests only the landing
\* square, so a pawn jumps over a piece standing right in front of it.
pawn_moves_from_jumping(g, gen, sq) ==
    LET forward == IF gen.color = White THEN 8 ELSE -8
        start_rank == IF gen.color = White THEN 1 ELSE 6
        promo_rank == IF gen.color = White THEN 7 ELSE 0
        ep_rank == IF gen.color = White THEN 4 ELSE 3
        pin_mask == gen.pin_masks[sq]
        target_sq == sq + forward
        double_sq == sq + forward * 2
        single ==
            IF /\ target_sq >= 0 /\ target_sq < 64
               /\ ~get(gen.occupied, target_sq)
               /\ target_sq \in gen.check_mask /\ target_sq \in pin_mask
            THEN IF rank_of(target_sq) = promo_rank THEN promotions(sq, target_sq)
                 ELSE <<MoveNew(sq, target_sq)>>
            ELSE <<>>
        double ==
            IF /\ rank_of(sq) = start_rank
               /\ ~get(gen.occupied, double_sq)
               /\ double_sq \in gen.check_mask /\ double_sq \in pin_mask
            THEN <<with_flags(sq, double_sq, DoublePawnPush)>>
            ELSE <<>>
        attacks == pawn_attacks(sq, gen.color)
        caps == iter(attacks \cap gen.them)
        captures ==
            Concat([i \in 1..Len(caps) |->
                IF caps[i] \in gen.check_mask /\ caps[i] \in pin_mask
                THEN IF rank_of(caps[i]) = promo_rank THEN promotions(sq, caps[i])
                     ELSE <<MoveNew(sq, caps[i])>>
                ELSE <<>>])
        ep_sq == g.en_passant
        en_passant ==
            IF /\ ep_sq # NoSquare
               /\ rank_of(sq) = ep_rank
               /\ get(attacks, ep_sq)
               /\ is_en_passant_legal(g, gen, sq, ep_sq)
               /\ gen.check_mask \cap {ep_sq, ep_sq - forward} # {}
               /\ ep_sq \in pin_mask
            THEN <<with_flags(sq, ep_sq, EnPassant)>>
            ELSE <<>>
    IN single \o double \o captures \o en_passant

\* Variant of pawn_moves_from whose en-passant capture must land in the
\* check mask, as every other pawn move must.
pawn_moves_from_ep_landing_in_mask(g, gen, sq) ==
    LET forward == IF gen.color = White THEN 8 ELSE -8
        start_rank == IF gen.color = White THEN 1 ELSE 6
        promo_rank == IF gen.color = White THEN 7 ELSE 0
        ep_rank == IF gen.color = White THEN 4 ELSE 3
        pin_mask == gen.pin_masks[sq]
        target_sq == sq + forward
        double_sq == sq + forward * 2
        single ==
            IF /\ target_sq >= 0 /\ target_sq < 64
               /\ ~get(gen.occupied, target_sq)
               /\ target_sq \in gen.check_mask /\ target_sq \in pin_mask
            THEN IF rank_of(target_sq) = promo_rank THEN promotions(sq, target_sq)
                 ELSE <<MoveNew(sq, target_sq)>>
            ELSE <<>>
        double ==
            IF /\ rank_of(sq) = start_rank
               /\ ~get(gen.occupied, target_sq) /\ ~get(gen.occupied, double_sq)
               /\ double_sq \in gen.check_mask /\ double_sq \in pin_mask
            THEN <<with_flags(sq, double_sq, DoublePawnPush)>>
            ELSE <<>>
        attacks == pawn_attacks(sq, gen.color)
        caps == iter(attacks \cap gen.them)
        captures ==
            Concat([i \in 1..Len(caps) |->
                IF caps[i] \in gen.check_mask /\ caps[i] \in pin_mask
                THEN IF rank_of(caps[i]) = promo_rank THEN promotions(sq, caps[i])
                     ELSE <<MoveNew(sq, caps[i])>>
                ELSE <<>>])
        ep_sq == g.en_passant
        en_passant ==
            IF /\ ep_sq # NoSquare
               /\ rank_of(sq) = ep_rank
               /\ get(attacks, ep_sq)
               /\ is_en_passant_legal(g, gen, sq, ep_sq)
               /\ ep_sq \in gen.check_mask
               /\ ep_sq \in pin_mask
            THEN <<with_flags(sq, ep_sq, EnPassant)>>
            ELSE <<>>
    IN single \o double \o captures \o en_passant

\* body of the loop of generate_pawn_moves for our pawn on sq
pawn_moves_from(g, gen, sq) ==
    LET forward == IF gen.color = White THEN 8 ELSE -8
        start_rank == IF gen.color = White THEN 1 ELSE 6
        promo_rank == IF gen.color = White THEN 7 ELSE 0
        ep_rank == IF gen.color = White THEN 4 ELSE 3
        pin_mask == gen.pin_masks[sq]
        target_sq == sq + forward
        double_sq == sq + forward * 2
        single ==
            IF /\ target_sq >= 0 /\ target_sq < 64
               /\ ~get(gen.occupied, target_sq)
               /\ target_sq \in gen.check_mask /\ target_sq \in pin_mask
            THEN IF rank_of(target_sq) = promo_rank THEN promotions(sq, target_sq)
                 ELSE <<MoveNew(sq, target_sq)>>
            ELSE <<>>
        double ==
            IF /\ rank_of(sq) = start_rank
               /\ ~get(gen.occupied, target_sq) /\ ~get(gen.occupied, double_sq)
               /\ double_sq \in gen.check_mask /\ double_sq \in pin_mask
            THEN <<with_flags(sq, double_sq, DoublePawnPush)>>
            ELSE <<>>
        attacks == pawn_attacks(sq, gen.color)
        caps == iter(attacks \cap gen.them)
        captures ==
            Concat([i \in 1..Len(caps) |->
                IF caps[i] \in gen.check_mask /\ caps[i] \in pin_mask
                THEN IF rank_of(caps[i]) = promo_rank THEN promotions(sq, caps[i])
                     ELSE <<MoveNew(sq, caps[i])>>
                ELSE <<>>])
        ep_sq == g.en_passant
        en_passant ==
            IF /\ ep_sq # NoSquare
               /\ rank_of(sq) = ep_rank
               /\ get(attacks, ep_sq)
               /\ is_en_passant_legal(g, gen, sq, ep_sq)
               /\ gen.check_mask \cap {ep_sq, ep_sq - forward} # {}
               /\ ep_sq \in pin_mask
            THEN <<with_flags(sq, ep_sq, EnPassant)>>
            ELSE <<>>
    IN single \o double \o captures \o en_passant

\* squares of our pieces of type pt, in the order of Board::pieces
our_pieces(g, gen, pt) ==
    iter({sq \in Squares : g.board.squares[sq] = PieceNew(pt, gen.color)})

generate_pawn_moves(g, gen) ==
    LET ps == our_pieces(g, gen, Pawn)
    IN Concat([i \in 1..Len(ps) |-> pawn_moves_from(g, gen, ps[i])])

\* one push per target square, ascending
normal_moves(from, targets) ==
    LET ts == iter(targets) IN [i \in 1..Len(ts) |-> MoveNew(from, ts[i])]

\* Variant of generate_knight_moves that does not skip a pinned knight.
generate_knight_moves_pinned_too(g, gen) ==
    LET ps == our_pieces(g, gen, Knight)
    IN Concat([i \in 1..Len(ps) |->
          normal_moves(ps[i], (knight_attacks(ps[i]) \ gen.us) \cap gen.check_mask)])

generate_knight_moves(g, gen) ==
    LET ps == our_pieces(g, gen, Knight)
    IN Concat([i \in 1..Len(ps) |->
          IF gen.pin_masks[ps[i]] # ALL THEN <<>>
          ELSE normal_moves(ps[i], (knight_attacks(ps[i]) \ gen.us) \cap gen.check_mask)])

\* attacks_fn of generate_slider_moves
slider_attacks(pt, sq, occupied) ==
    CASE pt = Bishop -> bishop_attacks(sq, occupied)
      [] pt = Rook -> rook_attacks(sq, occupied)
      [] pt = Queen -> queen_attacks(sq, occupied)

\* Variant of generate_slider_moves that does not intersect with the pin mask.
generate_slider_moves_no_pin_mask(g, gen, pt) ==
    LET ps == our_pieces(g, gen, pt)
    IN Concat([i \in 1..Len(ps) |->
          normal_moves(ps[i], (slider_attacks(pt, ps[i], gen.occupied) \ gen.us)
                                  \cap gen.check_mask)])

generate_slider_moves(g, gen, pt) ==
    LET ps == our_pieces(g, gen, pt)
    IN Concat([i \in 1..Len(ps) |->
          normal_moves(ps[i], ((slider_attacks(pt, ps[i], gen.occupied) \ gen.us)
                                  \cap gen.check_mask) \cap gen.pin_masks[ps[i]])])

\* Variant of generate_rook_moves that also walks the queens with the rook
\* attacks, which generate_queen_moves emits again.
generate_rook_moves_and_queens(g, gen) ==
    LET qs == our_pieces(g, gen, Queen)
    IN generate_slider_moves(g, gen, Rook)
       \o Concat([i \in 1..Len(qs) |->
            normal_moves(qs[i], ((rook_attacks(qs[i], gen.occupied) \ gen.us)
                                    \cap gen.check_mask) \cap gen.pin_masks[qs[i]])])

generate_bishop_moves(g, gen) == generate_slider_moves(g, gen, Bishop)
generate_rook_moves(g, gen) == generate_slider_moves(g, gen, Rook)
generate_queen_moves(g, gen) == generate_slider_moves(g, gen, Queen)

generate_king_moves(g, gen) ==
    normal_moves(gen.king_sq, (king_attacks(gen.king_sq) \ gen.enemy_attacks) \ gen.us)

\* Variant of generate_castling_moves whose queenside test also requires the
\* b-square to be outside enemy_attacks.
generate_castling_moves_b_unattacked(g, gen) ==
    LET rights == castling_rights(g, gen.color)
        rank == IF gen.color = White THEN 0 ELSE 7
        rank_offset == rank * 8
        kingside ==
            IF /\ rights.kingside
               /\ ~get(gen.occupied, rank_offset + 5) /\ ~get(gen.occupied, rank_offset + 6)
               /\ ~get(gen.enemy_attacks, rank_offset + 5)
               /\ ~get(gen.enemy_attacks, rank_offset + 6)
            THEN <<with_flags(rank_offset + 4, rank_offset + 6, CastleKingside)>>
            ELSE <<>>
        queenside ==
            IF /\ rights.queenside
               /\ ~get(gen.occupied, rank_offset + 1) /\ ~get(gen.occupied, rank_offset + 2)
               /\ ~get(gen.occupied, rank_offset + 3)
               /\ ~get(gen.enemy_attacks, rank_offset + 1)
               /\ ~get(gen.enemy_attacks, rank_offset + 2)
               /\ ~get(gen.enemy_attacks, rank_offset + 3)
            THEN <<with_flags(rank_offset + 4, rank_offset + 2, CastleQueenside)>>
            ELSE <<>>
    IN kingside \o queenside

generate_castling_moves(g, gen) ==
    LET rights == castling_rights(g, gen.color)
        rank == IF gen.color = White THEN 0 ELSE 7
        rank_offset == rank * 8
        kingside ==
            IF /\ rights.kingside
               /\ ~get(gen.occupied, rank_offset + 5) /\ ~get(gen.occupied, rank_offset + 6)
               /\ ~get(gen.enemy_attacks, rank_offset + 5)
               /\ ~get(gen.enemy_attacks, rank_offset + 6)
            THEN <<with_flags(rank_offset + 4, rank_offset + 6, CastleKingside)>>
            ELSE <<>>
        queenside ==
            IF /\ rights.queenside
               /\ ~get(gen.occupied, rank_offset + 1) /\ ~get(gen.occupied, rank_offset + 2)
               /\ ~get(gen.occupied, rank_offset + 3)
               /\ ~get(gen.enemy_attacks, rank_offset + 2)
               /\ ~get(gen.enemy_attacks, rank_offset + 3)
            THEN <<with_flags(rank_offset + 4, rank_offset + 2, CastleQueenside)>>
            ELSE <<>>
    IN kingside \o queenside

generate_moves(g, gen) ==
    IF in_double_check(gen) THEN generate_king_moves(g, gen)
    ELSE generate_pawn_moves(g, gen) \o generate_knight_moves(g, gen)
         \o generate_bishop_moves(g, gen) \o generate_rook_moves(g, gen)
         \o generate_queen_moves(g, gen) \o generate_king_moves(g, gen)
         \o (IF ~in_check(gen) THEN generate_castling_moves(g, gen) ELSE <<>>)

generate_legal_moves(g) == generate_moves(g, MoveGeneratorNew(g))
is_in_check(g) == in_check(MoveGeneratorNew(g))

\* ------------------------------------------------------------------------
\* Positions (GameState::from_fen results)
\* ------------------------------------------------------------------------
\* board from a placement: a sequence of <<square, piece>> set_piece calls
RECURSIVE place(_, _, _)
place(b, ps, i) ==
    IF i > Len(ps) THEN b ELSE place(set_piece(b, ps[i][1], ps[i][2]), ps, i + 1)

\* the GameState from_fen builds: pieces placed rank 8 first, clocks 0 and 1
\* (a position whose FEN gives other clocks is written with WithClocks)
GameOf(ps, stm, wk, wq, bk, bq, ep) ==
    [board |-> place(BoardEmpty, ps, 1),
     side_to_move |-> stm,
     white_castling |-> [kingside |-> wk, queenside |-> wq],
     black_castling |-> [kingside |-> bk, queenside |-> bq],
     en_passant |-> ep,
     halfmove_clock |-> <<0, 0>>,
     fullmove_number |-> <<0, 1>>]

\* the fifth and sixth fields of a FEN, parsed as u32
WithClocks(g, halfmove, fullmove) ==
    [g EXCEPT !.halfmove_clock = halfmove, !.fullmove_number = fullmove]

WP == PieceNew(Pawn, White)
WN == PieceNew(Knight, White)
WB == PieceNew(Bishop, White)
WR == PieceNew(Rook, White)
WQ == PieceNew(Queen, White)
WK == PieceNew(King, White)
BP == PieceNew(Pawn, Black)
BN == PieceNew(Knight, Black)
BB == PieceNew(Bishop, Black)
BR == PieceNew(Rook, Black)
BQ == PieceNew(Queen, Black)
BK == PieceNew(King, Black)

\* rnbqkbnr/pppppppp/8/8/8/8/PPPPPPPP/RNBQKBNR w KQkq - 0 1
FenStart ==
    GameOf(<< <<56, BR>>, <<57, BN>>, <<58, BB>>, <<59, BQ>>, <<60, BK>>, <<61, BB>>,
              <<62, BN>>, <<63, BR>>, <<48, BP>>, <<49, BP>>, <<50, BP>>, <<51, BP>>,
              <<52, BP>>, <<53, BP>>, <<54, BP>>, <<55, BP>>, <<8, WP>>, <<9, WP>>,
              <<10, WP>>, <<11, WP>>, <<12, WP>>, <<13, WP>>, <<14, WP>>, <<15, WP>>,
              <<0, WR>>, <<1, WN>>, <<2, WB>>, <<3, WQ>>, <<4, WK>>, <<5, WB>>,
              <<6, WN>>, <<7, WR>> >>,
           White, TRUE, TRUE, TRUE, TRUE, NoSquare)

\* r3k2r/p1ppqpb1/bn2pnp1/3PN3/1p2P3/2N2Q1p/PPPBBPPP/R3K2R w KQkq - 0 1
FenKiwipete ==
    GameOf(<< <<56, BR>>, <<60, BK>>, <<63, BR>>, <<48, BP>>, <<50, BP>>, <<51, BP>>,
              <<52, BQ>>, <<53, BP>>, <<54, BB>>, <<40, BB>>, <<41, BN>>, <<44, BP>>,
              <<45, BN>>, <<46, BP>>, <<35, WP>>, <<36, WN>>, <<25, BP>>, <<28, WP>>,
              <<18, WN>>, <<21, WQ>>, <<23, BP>>, <<8, WP>>, <<9, WP>>, <<10, WP>>,
              <<11, WB>>, <<12, WB>>, <<13, WP>>, <<14, WP>>, <<15, WP>>, <<0, WR>>,
              <<4, WK>>, <<7, WR>> >>,
           White, TRUE, TRUE, TRUE, TRUE, NoSquare)

\* 8/2p5/3p4/KP5r/1R3p1k/8/4P1P1/8 w - - 0 1
FenRookEndgame ==
    GameOf(<< <<50, BP>>, <<43, BP>>, <<32, WK>>, <<33, WP>>, <<39, BR>>, <<25, WR>>,
              <<29, BP>>, <<31, BK>>, <<12, WP>>, <<14, WP>> >>,
           White, FALSE, FALSE, FALSE, FALSE, NoSquare)

\* r3k2r/Pppp1ppp/1b3nbN/nP6/BBP1P3/q4N2/Pp1P2PP/R2Q1RK1 w kq - 0 1
FenPromotions ==
    GameOf(<< <<56, BR>>, <<60, BK>>, <<63, BR>>, <<48, WP>>, <<49, BP>>, <<50, BP>>,
              <<51, BP>>, <<53, BP>>, <<54, BP>>, <<55, BP>>, <<41, BB>>, <<45, BN>>,
              <<46, BB>>, <<47, WN>>, <<32, BN>>, <<33, WP>>, <<24, WB>>, <<25, WB>>,
              <<26, WP>>, <<28, WP>>, <<16, BQ>>, <<21, WN>>, <<8, WP>>, <<9, BP>>,
              <<11, WP>>, <<14, WP>>, <<15, WP>>, <<0, WR>>, <<3, WQ>>, <<5, WR>>,
              <<6, WK>> >>,
           White, FALSE, FALSE, TRUE, TRUE, NoSquare)

\* rnbq1k1r/pp1Pbppp/2p5/8/2B5/8/PPP1NnPP/RNBQK2R w KQ - 0 1
FenMiddlegame ==
    GameOf(<< <<56, BR>>, <<57, BN>>, <<58, BB>>, <<59, BQ>>, <<61, BK>>, <<63, BR>>,
              <<48, BP>>, <<49, BP>>, <<51, WP>>, <<52, BB>>, <<53, BP>>, <<54, BP>>,
              <<55, BP>>, <<42, BP>>, <<26, WB>>, <<8, WP>>, <<9, WP>>, <<10, WP>>,
              <<12, WN>>, <<13, BN>>, <<14, WP>>, <<15, WP>>, <<0, WR>>, <<1, WN>>,
              <<2, WB>>, <<3, WQ>>, <<4, WK>>, <<7, WR>> >>,
           White, TRUE, TRUE, FALSE, FALSE, NoSquare)

\* r1bqkb1r/pppp1Qpp/2n2n2/4p3/2B1P3/8/PPPP1PPP/RNB1K1NR b KQkq - 0 1
FenScholarMate ==
    GameOf(<< <<56, BR>>, <<58, BB>>, <<59, BQ>>, <<60, BK>>, <<61, BB>>, <<63, BR>>,
              <<48, BP>>, <<49, BP>>, <<50, BP>>, <<51, BP>>, <<53, WQ>>, <<54, BP>>,
              <<55, BP>>, <<42, BN>>, <<45, BN>>, <<36, BP>>, <<26, WB>>, <<28, WP>>,
              <<8, WP>>, <<9, WP>>, <<10, WP>>, <<11, WP>>, <<13, WP>>, <<14, WP>>,
              <<15, WP>>, <<0, WR>>, <<1, WN>>, <<2, WB>>, <<4, WK>>, <<6, WN>>,
              <<7, WR>> >>,
           Black, TRUE, TRUE, TRUE, TRUE, NoSquare)

\* rnbqkbnr/ppppp1pp/8/5p1Q/4P3/8/PPPP1PPP/RNB1KBNR b KQkq - 0 1
FenSimpleCheck ==
    GameOf(<< <<56, BR>>, <<57, BN>>, <<58, BB>>, <<59, BQ>>, <<60, BK>>, <<61, BB>>,
              <<62, BN>>, <<63, BR>>, <<48, BP>>, <<49, BP>>, <<50, BP>>, <<51, BP>>,
              <<52, BP>>, <<54, BP>>, <<55, BP>>, <<37, BP>>, <<39, WQ>>, <<28, WP>>,
              <<8, WP>>, <<9, WP>>, <<10, WP>>, <<11, WP>>, <<13, WP>>, <<14, WP>>,
              <<15, WP>>, <<0, WR>>, <<1, WN>>, <<2, WB>>, <<4, WK>>, <<5, WB>>,
              <<6, WN>>, <<7, WR>> >>,
           Black, TRUE, TRUE, TRUE, TRUE, NoSquare)

\* r3k2r/8/8/8/8/8/8/R3K2R w KQkq - 0 1
FenCastling ==
    GameOf(<< <<56, BR>>, <<60, BK>>, <<63, BR>>, <<0, WR>>, <<4, WK>>, <<7, WR>> >>,
           White, TRUE, TRUE, TRUE, TRUE, NoSquare)

\* r3k2r/8/8/8/8/8/8/R3K1NR w KQkq - 0 1
FenCastlingBlocked ==
    GameOf(<< <<56, BR>>, <<60, BK>>, <<63, BR>>, <<0, WR>>, <<4, WK>>, <<6, WN>>,
              <<7, WR>> >>,
           White, TRUE, TRUE, TRUE, TRUE, NoSquare)

\* r3k2r/8/8/8/8/8/1r4r1/R3K2R w KQkq - 0 1
FenCastlingAttacked ==
    GameOf(<< <<56, BR>>, <<60, BK>>, <<63, BR>>, <<9, BR>>, <<14, BR>>, <<0, WR>>,
              <<4, WK>>, <<7, WR>> >>,
           White, TRUE, TRUE, TRUE, TRUE, NoSquare)

\* rnbqkbnr/pppp1ppp/8/4pP2/8/8/PPPPP1PP/RNBQKBNR w KQkq e6 0 1
FenEnPassant ==
    GameOf(<< <<56, BR>>, <<57, BN>>, <<58, BB>>, <<59, BQ>>, <<60, BK>>, <<61, BB>>,
              <<62, BN>>, <<63, BR>>, <<48, BP>>, <<49, BP>>, <<50, BP>>, <<51, BP>>,
              <<53, BP>>, <<54, BP>>, <<55, BP>>, <<36, BP>>, <<37, WP>>, <<8, WP>>,
              <<9, WP>>, <<10, WP>>, <<11, WP>>, <<12, WP>>, <<14, WP>>, <<15, WP>>,
              <<0, WR>>, <<1, WN>>, <<2, WB>>, <<3, WQ>>, <<4, WK>>, <<5, WB>>,
              <<6, WN>>, <<7, WR>> >>,
           White, TRUE, TRUE, TRUE, TRUE, 44)

\* 8/P7/8/8/8/8/8/4K2k w - - 0 1
FenPromotion ==
    GameOf(<< <<48, WP>>, <<4, WK>>, <<7, BK>> >>,
           White, FALSE, FALSE, FALSE, FALSE, NoSquare)

\* 4k3/8/8/8/4N3/8/8/r3K3 w - - 0 1
FenKnightCheck ==
    GameOf(<< <<60, BK>>, <<28, WN>>, <<0, BR>>, <<4, WK>> >>,
           White, FALSE, FALSE, FALSE, FALSE, NoSquare)

\* 4r3/8/8/8/8/5n2/8/3QK2k w - - 0 1
FenDoubleCheck ==
    GameOf(<< <<60, BR>>, <<21, BN>>, <<3, WQ>>, <<4, WK>>, <<7, BK>> >>,
           White, FALSE, FALSE, FALSE, FALSE, NoSquare)

\* 4r2k/8/8/b7/7q/8/3BRN2/4K3 w - - 0 1
FenPins ==
    GameOf(<< <<60, BR>>, <<63, BK>>, <<32, BB>>, <<31, BQ>>, <<11, WB>>, <<12, WR>>,
              <<13, WN>>, <<4, WK>> >>,
           White, FALSE, FALSE, FALSE, FALSE, NoSquare)

\* 7k/5Q2/6K1/8/8/8/8/8 b - - 0 1
FenStalemate ==
    GameOf(<< <<63, BK>>, <<53, WQ>>, <<46, WK>> >>,
           Black, FALSE, FALSE, FALSE, FALSE, NoSquare)

\* 8/8/8/8/k2Pp2Q/8/8/3K4 b - d3 0 1
FenEpRankPin ==
    GameOf(<< <<24, BK>>, <<27, WP>>, <<28, BP>>, <<31, WQ>>, <<3, WK>> >>,
           Black, FALSE, FALSE, FALSE, FALSE, 19)

\* 8/8/8/3pP3/4K3/8/8/7k w - d6 0 1
FenEpChecker ==
    GameOf(<< <<35, BP>>, <<36, WP>>, <<28, WK>>, <<7, BK>> >>,
           White, FALSE, FALSE, FALSE, FALSE, 43)

\* 6b1/8/8/3Pp3/2K5/8/8/7k w - e6 0 1
FenEpPinnedDiagonal ==
    GameOf(<< <<62, BB>>, <<35, WP>>, <<36, BP>>, <<26, WK>>, <<7, BK>> >>,
           White, FALSE, FALSE, FALSE, FALSE, 44)

\* 4r3/8/8/3pP3/8/8/8/4K2k w - d6 0 1
FenEpPinnedFile ==
    GameOf(<< <<60, BR>>, <<35, BP>>, <<36, WP>>, <<4, WK>>, <<7, BK>> >>,
           White, FALSE, FALSE, FALSE, FALSE, 43)

\* 8/6b1/8/3Pp3/8/2K5/8/7k w - e6 0 1
FenEpDiscovered ==
    GameOf(<< <<54, BB>>, <<35, WP>>, <<36, BP>>, <<18, WK>>, <<7, BK>> >>,
           White, FALSE, FALSE, FALSE, FALSE, 44)

\* k7/1b6/4p3/3pP3/8/8/5q2/7K w - d6 0 1
FenEpOnlyMove ==
    GameOf(<< <<56, BK>>, <<49, BB>>, <<44, BP>>, <<35, BP>>, <<36, WP>>, <<13, BQ>>,
              <<7, WK>> >>,
           White, FALSE, FALSE, FALSE, FALSE, 43)

\* 4k3/8/8/8/8/3n4/4r3/R3K2R w KQ - 0 1
FenDoubleCheckCastle ==
    GameOf(<< <<60, BK>>, <<19, BN>>, <<12, BR>>, <<0, WR>>, <<4, WK>>, <<7, WR>> >>,
           White, TRUE, TRUE, FALSE, FALSE, NoSquare)

\* 4k3/8/8/8/8/8/8/4K2R w K - 4294967295 4294967295
FenClocksAtMax ==
    WithClocks(GameOf(<< <<60, BK>>, <<4, WK>>, <<7, WR>> >>,
                      White, TRUE, FALSE, FALSE, FALSE, NoSquare),
               U32_MAX, U32_MAX)

SeedPositions ==
    {FenClocksAtMax,
     FenStart,
     FenKiwipete,
     FenRookEndgame,
     FenPromotions,
     FenMiddlegame,
     FenScholarMate,
     FenSimpleCheck,
     FenCastling,
     FenCastlingBlocked,
     FenCastlingAttacked,
     FenEnPassant,
     FenPromotion,
     FenKnightCheck,
     FenDoubleCheck,
     FenPins,
     FenStalemate,
     FenEpRankPin,
     FenEpChecker,
     FenEpPinnedDiagonal,
     FenEpPinnedFile,
     FenEpDiscovered,
     FenEpOnlyMove,
     FenDoubleCheckCastle}

\* GameState::starting_position
starting_position == FenStart

\* ------------------------------------------------------------------------
\* State machine
\* ------------------------------------------------------------------------
\* number of make_move calls applied to a seed position
MaxPly == 2

\* deepest perft call made from the starting position in SpecPerft
MaxDepth == 3

VARIABLES
    game,    \* the GameState (for perft: the position perft is called on)
    ply,     \* make_move calls since the initial state
    depth,   \* perft: the depth argument of the outermost call
    stack,   \* perft: the call stack, innermost call last
    result,  \* perft: the value returned by the outermost call (0 before it returns)
    pc,      \* "play" | "perft" | "done" | "call" | .. | "panic" (the process aborted)
    call,    \* the call of an attack lookup being made, NoCall outside one
    once,    \* the OnceLock of each attack table
    threads, \* the threads making a first call to an attack lookup
    board    \* a Board that set_piece, remove_piece and move_piece work on

\* what the game and perft actions leave alone
aux == <<call, once, threads, board>>

\* what a single call leaves alone
nocall == <<game, ply, depth, stack, result, pc, once, threads, board>>

vars == <<game, ply, depth, stack, result, pc, call, once, threads, board>>

\* the attack tables hold what their initializers return, no thread is at a
\* first call, no Board is worked on
settled ==
    /\ once = <<>>
    /\ threads = <<>>
    /\ board = BoardEmpty

NoCall == [fn |-> "none"]

\* the moves of a move list, as a set
MoveSet(moves) == {moves[i] : i \in 1..Len(moves)}

Init ==
    /\ game \in SeedPositions
    /\ ply = 0
    /\ depth = 0
    /\ stack = <<>>
    /\ result = 0
    /\ pc = "play"
    /\ call = NoCall
    /\ settled

\* MoveGenerator::new panics ("King must exist") when find_king returns None
KingMustExist(g) == find_king(g.board, g.side_to_move) # NoSquare

\* new_game.make_move(&mv) for a move mv of generate_legal_moves(game). An
\* addition that overflows a clock wraps when the build has no overflow
\* checks and panics when it has them: both outcomes are steps.
MakeMove ==
    /\ pc = "play"
    /\ ply < MaxPly
    /\ KingMustExist(game)
    /\ \E mv \in MoveSet(generate_legal_moves(game)) :
          \/ /\ game' = make_move(game, mv)
             /\ ply' = ply + 1
             /\ pc' = pc
          \/ /\ make_move_panics(game, mv)
             /\ pc' = "panic"
             /\ UNCHANGED <<game, ply>>
    /\ UNCHANGED <<depth, stack, result>>
    /\ UNCHANGED aux

Next == MakeMove

Spec == Init /\ [][Next]_vars

\* ------------------------------------------------------------------------
\* perft, one recursive call per stack frame
\* ------------------------------------------------------------------------
\* a call perft(&g, d) that has not yet run: i = 0 marks the entry point
PerftFrame(g, d) ==
    [game |-> g, depth |-> d, moves |-> <<>>, i |-> 0, nodes |-> 0]

Top == stack[Len(stack)]

Caller == stack[Len(stack) - 1]

\* return v from the innermost call: `nodes += perft(..)` in the caller and
\* the caller's loop advances, or v is the outermost call's value
PerftReturnValue(v) ==
    IF Len(stack) = 1
    THEN /\ stack' = <<>>
         /\ result' = v
         /\ pc' = "done"
    ELSE /\ stack' = [SubSeq(stack, 1, Len(stack) - 1) EXCEPT
                         ![Len(stack) - 1] = [Caller EXCEPT
                             !.nodes = Caller.nodes + v,
                             !.i = Caller.i + 1]]
         /\ UNCHANGED <<result, pc>>

\* stack with the innermost frame replaced by f
WithTop(f) == [stack EXCEPT ![Len(stack)] = f]

\* the early returns:
\*   if depth == 0 { return 1; }
\*   let moves = generate_legal_moves(game);
\*   if depth == 1 { return moves.len() as u64; }
PerftLeaf ==
    /\ pc = "perft"
    /\ Top.i = 0
    /\ Top.depth <= 1
    /\ (Top.depth = 1 => KingMustExist(Top.game))
    /\ PerftReturnValue(IF Top.depth = 0 THEN 1
                        ELSE Len(generate_legal_moves(Top.game)))
    /\ UNCHANGED <<game, ply, depth>>
    /\ UNCHANGED aux

\* let moves = generate_legal_moves(game); let mut nodes = 0; (depth > 1)
PerftMoves ==
    /\ pc = "perft"
    /\ Top.i = 0
    /\ Top.depth > 1
    /\ KingMustExist(Top.game)
    /\ stack' = WithTop([Top EXCEPT !.moves = generate_legal_moves(Top.game),
                                    !.i = 1])
    /\ UNCHANGED <<game, ply, depth, result, pc>>
    /\ UNCHANGED aux

\* for mv in moves { new_game = game.clone(); new_game.make_move(&mv);
\*                   perft(&new_game, depth - 1) ..
PerftRecurse ==
    /\ pc = "perft"
    /\ Top.i >= 1
    /\ Top.i <= Len(Top.moves)
    /\ \/ /\ stack' = Append(stack,
                             PerftFrame(make_move(Top.game, Top.moves[Top.i]),
                                        Top.depth - 1))
          /\ pc' = pc
       \/ /\ make_move_panics(Top.game, Top.moves[Top.i])
          /\ pc' = "panic"
          /\ UNCHANGED stack
    /\ UNCHANGED <<game, ply, depth, result>>
    /\ UNCHANGED aux

\* the loop is over: nodes
PerftNodes ==
    /\ pc = "perft"
    /\ Top.i >= 1
    /\ Top.i > Len(Top.moves)
    /\ PerftReturnValue(Top.nodes)
    /\ UNCHANGED <<game, ply, depth>>
    /\ UNCHANGED aux

perft ==
    \/ PerftLeaf
    \/ PerftMoves
    \/ PerftRecurse
    \/ PerftNodes

\* perft(&GameState::starting_position(), d) for d = 0 .. MaxDepth
PerftInit ==
    /\ game = starting_position
    /\ ply = 0
    /\ depth \in 0..MaxDepth
    /\ stack = <<PerftFrame(game, depth)>>
    /\ result = 0
    /\ pc = "perft"
    /\ call = NoCall
    /\ settled

SpecPerft == PerftInit /\ [][perft]_vars

\* perft(&GameState::starting_position(), d) for the deep depths 4 and 5
DeepDepths == {4, 5}

PerftDeepInit ==
    /\ game = starting_position
    /\ ply = 0
    /\ depth \in DeepDepths
    /\ stack = <<PerftFrame(game, depth)>>
    /\ result = 0
    /\ pc = "perft"
    /\ call = NoCall
    /\ settled

SpecPerftDeep == PerftDeepInit /\ [][perft]_vars

\* ------------------------------------------------------------------------
\* Attack lookups: one call of rook_attacks or bishop_attacks per behaviour,
\* on any square and any blocker subset of the square's mask.
\* ------------------------------------------------------------------------
idle ==
    /\ game = starting_position
    /\ ply = 0
    /\ depth = 0
    /\ stack = <<>>
    /\ result = 0
    /\ pc = "call"
    /\ settled

Lookup(fn, sq, occupied) ==
    [fn |-> fn, sq |-> sq, occupied |-> occupied, done |-> FALSE,
     ret |-> EMPTY]

\* the magic records of a piece kind
FancyMagics(kind) ==
    IF kind = "rook" THEN ROOK_FANCY_MAGICS ELSE BISHOP_FANCY_MAGICS

\* the index computed for every blocker permutation of a square, in the
\* order of the loop of init_rook_attacks / init_bishop_attacks
Indices(kind, sq) ==
    [fn |-> "magic_index", kind |-> kind, sq |-> sq, done |-> FALSE,
     ret |-> <<>>]

RECURSIVE indices_range(_, _, _, _)
indices_range(fm, perms, lo, hi) ==
    IF lo = hi THEN <<magic_index(perms[lo], fm.magic, fm.shift)>>
    ELSE LET mid == (lo + hi) \div 2
         IN  indices_range(fm, perms, lo, mid)
                 \o indices_range(fm, perms, mid + 1, hi)

MagicInit ==
    /\ idle
    /\ \E sq \in Squares :
          \/ \E b \in SUBSET ROOK_MASKS[sq] :
                call = Lookup("rook_attacks", sq, b)
          \/ \E b \in SUBSET BISHOP_MASKS[sq] :
                call = Lookup("bishop_attacks", sq, b)
          \/ \E kind \in {"rook", "bishop"} : call = Indices(kind, sq)

RookLookup ==
    /\ pc = "call"
    /\ call.fn = "rook_attacks"
    /\ ~call.done
    /\ call' = [call EXCEPT !.done = TRUE,
                            !.ret = rook_attacks(call.sq, call.occupied)]
    /\ UNCHANGED nocall

BishopLookup ==
    /\ pc = "call"
    /\ call.fn = "bishop_attacks"
    /\ ~call.done
    /\ call' = [call EXCEPT !.done = TRUE,
                            !.ret = bishop_attacks(call.sq, call.occupied)]
    /\ UNCHANGED nocall

MagicIndices ==
    /\ pc = "call"
    /\ call.fn = "magic_index"
    /\ ~call.done
    /\ LET fm == FancyMagics(call.kind)[call.sq + 1]
           perms == blocker_permutations(fm.mask)
       IN  call' = [call EXCEPT !.done = TRUE,
                                !.ret = indices_range(fm, perms, 1, Len(perms))]
    /\ UNCHANGED nocall

MagicNext == RookLookup \/ BishopLookup \/ MagicIndices

SpecMagic == MagicInit /\ [][MagicNext]_vars

\* ------------------------------------------------------------------------
\* Table construction: one iteration of the loop over the squares in
\* init_rook_attacks / init_bishop_attacks, run on the record of the square
\* as it is and as it would be with the magic number of the next square in
\* its place.
\* ------------------------------------------------------------------------
Magics(kind) == IF kind = "rook" THEN ROOK_MAGICS ELSE BISHOP_MAGICS

MagicCandidates(kind, sq) ==
    {Magics(kind)[sq + 1], Magics(kind)[((sq + 1) % 64) + 1]}

Build(kind, sq, magic) ==
    [fn |-> "init_attacks", kind |-> kind, sq |-> sq,
     fm |-> [FancyMagics(kind)[sq + 1] EXCEPT !.magic = magic],
     done |-> FALSE, ret |-> <<>>]

BuildInit ==
    /\ idle
    /\ \E kind \in {"rook", "bishop"}, sq \in Squares :
          \E magic \in MagicCandidates(kind, sq) :
             call = Build(kind, sq, magic)

\* for (blockers, _) in blocker_permutations(mask) { .. table[..] = attacks }
BuildRook ==
    /\ pc = "call"
    /\ call.fn = "init_attacks" /\ call.kind = "rook"
    /\ ~call.done
    /\ LET perms == blocker_permutations(call.fm.mask)
       IN  call' = [call EXCEPT
                       !.done = TRUE,
                       !.ret = rook_blockers_loop(
                                   call.sq, call.fm, perms, 1, Len(perms),
                                   zeroed(Pow2(64 - call.fm.shift)))]
    /\ UNCHANGED nocall

BuildBishop ==
    /\ pc = "call"
    /\ call.fn = "init_attacks" /\ call.kind = "bishop"
    /\ ~call.done
    /\ LET perms == blocker_permutations(call.fm.mask)
       IN  call' = [call EXCEPT
                       !.done = TRUE,
                       !.ret = bishop_blockers_loop(
                                   call.sq, call.fm, perms, 1, Len(perms),
                                   zeroed(Pow2(64 - call.fm.shift)))]
    /\ UNCHANGED nocall

BuildNext == BuildRook \/ BuildBishop

SpecBuild == BuildInit /\ [][BuildNext]_vars

\* ------------------------------------------------------------------------
\* First use of the attack tables by several threads: every lookup starts
\* with STATIC.get_or_init(initializer) on its std::sync::OnceLock.
\* get_or_init returns the stored value when the cell is complete; otherwise
\* one caller runs the initializer inside the cell's Once and stores its
\* result, and a caller that finds the Once running blocks until it is
\* complete.
\* ------------------------------------------------------------------------
NumThreads == 2

Threads == 1..NumThreads

Statics ==
    {"ROOK_ATTACKS", "BISHOP_ATTACKS", "KNIGHT_ATTACKS", "KING_ATTACKS",
     "PAWN_ATTACKS"}

\* OnceLock::new(); runs counts the executions of the initializer
OnceLockNew == [state |-> "incomplete", value |-> <<>>, runs |-> 0]

\* the static a lookup reads
static_of(fn) ==
    CASE fn = "rook_attacks" -> "ROOK_ATTACKS"
      [] fn = "bishop_attacks" -> "BISHOP_ATTACKS"
      [] fn = "knight_attacks" -> "KNIGHT_ATTACKS"
      [] fn = "king_attacks" -> "KING_ATTACKS"
      [] fn = "pawn_attacks" -> "PAWN_ATTACKS"

\* the initializer passed to get_or_init
initializer(static) ==
    CASE static = "ROOK_ATTACKS" -> init_rook_attacks
      [] static = "BISHOP_ATTACKS" -> init_bishop_attacks
      [] static = "KNIGHT_ATTACKS" -> init_knight_attacks
      [] static = "KING_ATTACKS" -> init_king_attacks
      [] static = "PAWN_ATTACKS" -> init_pawn_attacks

\* what the lookup does with the table get_or_init returned
table_read(fn, table, args) ==
    CASE fn = "rook_attacks" -> rook_lookup(table, args[1], args[2])
      [] fn = "bishop_attacks" -> bishop_lookup(table, args[1], args[2])
      [] fn = "knight_attacks" -> table[args[1]]
      [] fn = "king_attacks" -> table[args[1]]
      [] fn = "pawn_attacks" -> table[args[2]][args[1]]

\* the first calls the threads make
FirstCalls ==
    {<<"rook_attacks", <<27, {11, 29, 43}>>>>,
     <<"bishop_attacks", <<27, {9, 45}>>>>,
     <<"knight_attacks", <<1>>>>,
     <<"king_attacks", <<4>>>>,
     <<"pawn_attacks", <<12, White>>>>}

ThreadCalling(c) ==
    [fn |-> c[1], args |-> c[2], pc |-> "call", local |-> <<>>,
     ret |-> EMPTY]

OnceInit ==
    /\ game = starting_position
    /\ ply = 0
    /\ depth = 0
    /\ stack = <<>>
    /\ result = 0
    /\ pc = "threads"
    /\ call = NoCall
    /\ board = BoardEmpty
    /\ once = [static \in Statics |-> OnceLockNew]
    /\ threads \in [Threads -> {ThreadCalling(c) : c \in FirstCalls}]

\* a caller runs the initializer whenever the cell is not complete yet
may_initialize_if_not_complete(cell) == cell.state # "complete"

\* Once::call_once lets a caller run the initializer only from the
\* incomplete state
may_initialize(cell) == cell.state = "incomplete"

\* get_or_init, fast path: the cell is complete
GetOrInitComplete(t) ==
    LET static == static_of(threads[t].fn)
    IN  /\ threads[t].pc = "call"
        /\ once[static].state = "complete"
        /\ threads' = [threads EXCEPT ![t].pc = "read"]
        /\ UNCHANGED once

\* get_or_init, slow path: this caller takes the Once and will initialize
GetOrInitBegin(t) ==
    LET static == static_of(threads[t].fn)
    IN  /\ threads[t].pc = "call"
        /\ may_initialize(once[static])
        /\ once' = [once EXCEPT ![static].state = "running",
                                ![static].runs = @ + 1]
        /\ threads' = [threads EXCEPT ![t].pc = "init"]

\* the initializer runs to its end in the calling thread; the table it
\* builds is a local of that thread
RunInitializer(t) ==
    LET static == static_of(threads[t].fn)
    IN  /\ threads[t].pc = "init"
        /\ threads' = [threads EXCEPT ![t].pc = "store",
                                      ![t].local = initializer(static)]
        /\ UNCHANGED once

\* the result is moved into the cell and the Once becomes complete
StoreValue(t) ==
    LET static == static_of(threads[t].fn)
    IN  /\ threads[t].pc = "store"
        /\ once' = [once EXCEPT ![static].state = "complete",
                                ![static].value = threads[t].local]
        /\ threads' = [threads EXCEPT ![t].pc = "read", ![t].local = <<>>]

\* the lookup in the table get_or_init returned
ReadTable(t) ==
    LET static == static_of(threads[t].fn)
    IN  /\ threads[t].pc = "read"
        /\ threads' = [threads EXCEPT
                          ![t].pc = "done",
                          ![t].ret = table_read(threads[t].fn,
                                                once[static].value,
                                                threads[t].args)]
        /\ UNCHANGED once

OnceNext ==
    /\ pc = "threads"
    /\ \E t \in Threads :
          \/ GetOrInitComplete(t)
          \/ GetOrInitBegin(t)
          \/ RunInitializer(t)
          \/ StoreValue(t)
          \/ ReadTable(t)
    /\ UNCHANGED <<game, ply, depth, stack, result, pc, call, board>>

SpecOnce == OnceInit /\ [][OnceNext]_vars

\* ------------------------------------------------------------------------
\* Reference notions of the rules of chess, used to state the properties.
\* They read only the piece array and use the ray-cast attacks.
\* ------------------------------------------------------------------------
RefOccupied(b) == {sq \in Squares : b.squares[sq] # NoPiece}
RefPiecesOf(b, c) == {sq \in Squares : b.squares[sq] # NoPiece /\ color(b.squares[sq]) = c}

\* the squares the piece on sq attacks on occupancy occ (forward definition)
RefAttackSet(b, sq, occ) ==
    LET p == b.squares[sq] IN
    CASE piece_type(p) = Pawn -> pawn_attacks(sq, color(p))
      [] piece_type(p) = Knight -> knight_attacks(sq)
      [] piece_type(p) = Bishop -> bishop_attacks_slow(sq, occ)
      [] piece_type(p) = Rook -> rook_attacks_slow(sq, occ)
      [] piece_type(p) = Queen -> rook_attacks_slow(sq, occ) \cup bishop_attacks_slow(sq, occ)
      [] piece_type(p) = King -> king_attacks(sq)

\* the pieces of colour c that attack square sq
RefAttackers(b, sq, c) ==
    {t \in RefPiecesOf(b, c) : sq \in RefAttackSet(b, t, RefOccupied(b))}

RefKings(b, c) == {sq \in Squares : b.squares[sq] = PieceNew(King, c)}
RefKingSq(b, c) == CHOOSE sq \in RefKings(b, c) : TRUE

\* the king of colour c is attacked by a piece of the other colour
RefInCheck(b, c) == RefAttackers(b, RefKingSq(b, c), opposite(c)) # {}

\* the position invariants the core assumes: one king per colour, and the
\* side not to move is not in check
PositionInvariant(g) ==
    /\ Cardinality(RefKings(g.board, White)) = 1
    /\ Cardinality(RefKings(g.board, Black)) = 1
    /\ ~RefInCheck(g.board, opposite(g.side_to_move))

\* the enemy-attacks set: union of the attacks of all pieces of the side not
\* to move, on the occupancy without the mover's king
RefEnemyAttacks(g) ==
    LET c == g.side_to_move
        occ == RefOccupied(g.board) \ RefKings(g.board, c)
    IN UNION {RefAttackSet(g.board, t, occ) : t \in RefPiecesOf(g.board, opposite(c))}

\* after make_move(g, mv) the king of the side that moved is attacked
KingAttackedAfter(g, mv) ==
    RefInCheck(make_move(g, mv).board, g.side_to_move)

\* pseudo-legal moves of the piece on sq
RefPromoted(from, to, c) ==
    IF rank_of(to) = (IF c = White THEN 7 ELSE 0)
    THEN {with_flags(from, to, f) : f \in PromotionFlags}
    ELSE {MoveNew(from, to)}

RefPawnMoves(g, sq) ==
    LET c == g.side_to_move
        b == g.board
        occ == RefOccupied(b)
        fwd == IF c = White THEN 8 ELSE -8
        one == sq + fwd
        two == sq + 2 * fwd
        push == IF one \in Squares /\ one \notin occ THEN RefPromoted(sq, one, c) ELSE {}
        dbl == IF /\ rank_of(sq) = (IF c = White THEN 1 ELSE 6)
                  /\ one \notin occ /\ two \notin occ
               THEN {with_flags(sq, two, DoublePawnPush)} ELSE {}
        caps == UNION {RefPromoted(sq, t, c) :
                         t \in pawn_attacks(sq, c) \cap RefPiecesOf(b, opposite(c))}
        ep == IF g.en_passant # NoSquare /\ g.en_passant \in pawn_attacks(sq, c)
              THEN {with_flags(sq, g.en_passant, EnPassant)} ELSE {}
    IN push \cup dbl \cup caps \cup ep

RefPieceMoves(g, sq) ==
    LET b == g.board
        p == b.squares[sq]
    IN IF piece_type(p) = Pawn THEN RefPawnMoves(g, sq)
       ELSE {MoveNew(sq, t) :
                t \in RefAttackSet(b, sq, RefOccupied(b)) \ RefPiecesOf(b, g.side_to_move)}

\* castling: the right is held, the king is not in check, the squares between
\* king and rook are empty, the squares the king crosses are not attacked
RefCastlingMoves(g) ==
    LET c == g.side_to_move
        r == IF c = White THEN 0 ELSE 56
        occ == RefOccupied(g.board)
        att == RefEnemyAttacks(g)
        rights == castling_rights(g, c)
    IN (IF /\ rights.kingside /\ ~RefInCheck(g.board, c)
           /\ {r + 5, r + 6} \cap occ = {} /\ {r + 5, r + 6} \cap att = {}
        THEN {with_flags(r + 4, r + 6, CastleKingside)} ELSE {})
       \cup
       (IF /\ rights.queenside /\ ~RefInCheck(g.board, c)
           /\ {r + 1, r + 2, r + 3} \cap occ = {} /\ {r + 2, r + 3} \cap att = {}
        THEN {with_flags(r + 4, r + 2, CastleQueenside)} ELSE {})

RefPseudoLegalMoves(g) ==
    UNION {RefPieceMoves(g, sq) : sq \in RefPiecesOf(g.board, g.side_to_move)}
        \cup RefCastlingMoves(g)

\* the legal moves: pseudo-legal moves that do not leave the mover's king attacked
RefLegalMoves(g) == {mv \in RefPseudoLegalMoves(g) : ~KingAttackedAfter(g, mv)}

\* ------------------------------------------------------------------------
\* Properties
\* ------------------------------------------------------------------------
\* C1: in a position that satisfies the position invariants, no generated move
\* leaves the king of the side that moved attacked.
C1_KingSafeAfterMove ==
    PositionInvariant(game) =>
        \A mv \in MoveSet(generate_legal_moves(game)) : ~KingAttackedAfter(game, mv)

\* C2: in a position that satisfies the position invariants, the generated
\* moves are, as a set, exactly the legal moves of the reference generator.
C2_MovesAreTheLegalMoves ==
    PositionInvariant(game) =>
        MoveSet(generate_legal_moves(game)) = RefLegalMoves(game)

\* C3: the generated move list holds no two equal moves.
C3_NoDuplicateMoves ==
    KingMustExist(game) =>
        Cardinality(MoveSet(generate_legal_moves(game))) = Len(generate_legal_moves(game))

\* a position whose list holds several moves with the same from and to squares
\* (promotions) and moves of a queen
C3_Witness ==
    /\ KingMustExist(game)
    /\ \E m1, m2 \in MoveSet(generate_legal_moves(game)) :
          m1 # m2 /\ m1.from = m2.from /\ m1.to = m2.to
    /\ \E m \in MoveSet(generate_legal_moves(game)) :
          game.board.squares[m.from] = PieceNew(Queen, game.side_to_move)

\* C4: the generated list is empty exactly when the side to move has no legal
\* move, and then is_in_check tells checkmate (TRUE) from stalemate (FALSE).
C4_EmptyIffNoLegalMove ==
    PositionInvariant(game) =>
        /\ (Len(generate_legal_moves(game)) = 0) <=> (RefLegalMoves(game) = {})
        /\ RefLegalMoves(game) = {} =>
              (is_in_check(game) <=> RefInCheck(game.board, game.side_to_move))

\* C5: is_in_check holds exactly when an enemy piece attacks the king square
\* of the side to move (forward definition of attack).
C5_InCheckIffAttacked ==
    PositionInvariant(game) =>
        (is_in_check(game) <=> RefInCheck(game.board, game.side_to_move))

\* a position reached by a move in which a pawn checks the king, and one where
\* a slider does
C5_Witness ==
    /\ PositionInvariant(game)
    /\ is_in_check(game)
    /\ ply > 0
    /\ \E t \in RefAttackers(game.board, RefKingSq(game.board, game.side_to_move),
                             opposite(game.side_to_move)) :
          piece_type(game.board.squares[t]) \in {Pawn, Knight}

\* C6: when two or more enemy pieces attack the king of the side to move,
\* every generated move starts on the king square and none is a castling move.
C6_DoubleCheckOnlyKingMoves ==
    (/\ KingMustExist(game)
     /\ Cardinality(RefAttackers(game.board, find_king(game.board, game.side_to_move),
                                 opposite(game.side_to_move))) >= 2)
    => \A mv \in MoveSet(generate_legal_moves(game)) :
          /\ mv.from = find_king(game.board, game.side_to_move)
          /\ ~is_castling(mv)

\* a double check in which the king has a move, while the kingside right is
\* held and the f- and g-squares are empty and not attacked
C6_Witness ==
    /\ KingMustExist(game)
    /\ Cardinality(RefAttackers(game.board, find_king(game.board, game.side_to_move),
                                opposite(game.side_to_move))) >= 2
    /\ generate_legal_moves(game) # <<>>
    /\ castling_rights(game, game.side_to_move).kingside
    /\ LET r == IF game.side_to_move = White THEN 0 ELSE 56
       IN {r + 5, r + 6} \cap (RefOccupied(game.board) \cup RefEnemyAttacks(game)) = {}

\* the pins of the side to move: <<pinned square, pinner square>> such that the
\* pinner is an enemy rook/queen on the rank or file of the king, or an enemy
\* bishop/queen on a diagonal of the king, and the pinned piece is the only
\* piece strictly between them
OnLine(a, b) ==
    \/ file_of(a) = file_of(b) \/ rank_of(a) = rank_of(b)
    \/ file_of(a) - file_of(b) = rank_of(a) - rank_of(b)
    \/ file_of(a) - file_of(b) = rank_of(b) - rank_of(a)

Orthogonal(a, b) == file_of(a) = file_of(b) \/ rank_of(a) = rank_of(b)

\* squares strictly between two squares on a common line
RefBetween(a, b) ==
    IF a = b \/ ~OnLine(a, b) THEN {}
    ELSE LET df == signum(file_of(b) - file_of(a))
             dr == signum(rank_of(b) - rank_of(a))
             n == IF file_of(a) # file_of(b)
                  THEN (file_of(b) - file_of(a)) * df
                  ELSE (rank_of(b) - rank_of(a)) * dr
         IN {(rank_of(a) + k * dr) * 8 + file_of(a) + k * df : k \in 1..(n - 1)}

RefPins(g) ==
    LET c == g.side_to_move
        b == g.board
        k == RefKingSq(b, c)
    IN {pp \in RefPiecesOf(b, c) \X RefPiecesOf(b, opposite(c)) :
          /\ pp[2] # k /\ OnLine(k, pp[2])
          /\ piece_type(b.squares[pp[2]]) \in
                (IF Orthogonal(k, pp[2]) THEN {Rook, Queen} ELSE {Bishop, Queen})
          /\ RefBetween(k, pp[2]) \cap RefOccupied(b) = {pp[1]}}

\* C7: every generated move of a pinned piece lands between the king and the
\* pinner, or on the pinner's square.
C7_PinnedStaysOnRay ==
    KingMustExist(game) =>
        \A pp \in RefPins(game) : \A mv \in MoveSet(generate_legal_moves(game)) :
            mv.from = pp[1] =>
               mv.to \in RefBetween(RefKingSq(game.board, game.side_to_move), pp[2])
                            \cup {pp[2]}

\* a pinned rook, bishop or queen that has a generated move while the king is
\* not in check, in a position reached by a move
C7_Witness ==
    /\ PositionInvariant(game)
    /\ ply > 0
    /\ ~RefInCheck(game.board, game.side_to_move)
    /\ \E pp \in RefPins(game) : \E mv \in MoveSet(generate_legal_moves(game)) :
          /\ mv.from = pp[1]
          /\ piece_type(game.board.squares[pp[1]]) \in {Bishop, Rook, Queen}

\* C8: the kingside (queenside) castling move is generated exactly when the
\* right is held, the king is not in check, f and g (b, c and d) are empty and
\* f and g (c and d) are not attacked; no other castling move is generated.
C8_CastlingIff ==
    KingMustExist(game) =>
        LET c == game.side_to_move
            r == IF c = White THEN 0 ELSE 56
            occ == RefOccupied(game.board)
            att == RefEnemyAttacks(game)
            check == RefInCheck(game.board, c)
            rights == castling_rights(game, c)
            moves == MoveSet(generate_legal_moves(game))
        IN /\ with_flags(r + 4, r + 6, CastleKingside) \in moves
                <=> /\ rights.kingside /\ ~check
                    /\ r + 5 \notin occ /\ r + 6 \notin occ
                    /\ r + 5 \notin att /\ r + 6 \notin att
           /\ with_flags(r + 4, r + 2, CastleQueenside) \in moves
                <=> /\ rights.queenside /\ ~check
                    /\ r + 1 \notin occ /\ r + 2 \notin occ /\ r + 3 \notin occ
                    /\ r + 2 \notin att /\ r + 3 \notin att
           /\ \A mv \in moves : is_castling(mv) =>
                 mv \in {with_flags(r + 4, r + 6, CastleKingside),
                         with_flags(r + 4, r + 2, CastleQueenside)}

\* queenside castling generated while the b-square is attacked, and kingside
\* castling not generated because the g-square is attacked
C8_Witness ==
    /\ KingMustExist(game)
    /\ LET c == game.side_to_move
           r == IF c = White THEN 0 ELSE 56
           moves == MoveSet(generate_legal_moves(game))
       IN /\ with_flags(r + 4, r + 2, CastleQueenside) \in moves
          /\ r + 1 \in RefEnemyAttacks(game)
          /\ castling_rights(game, c).kingside
          /\ with_flags(r + 4, r + 6, CastleKingside) \notin moves

\* C9: perft from the standard starting position returns 1 at depth 0, 20 at
\* depth 1, 400 at depth 2 and 8902 at depth 3, computed as the code computes
\* it (the number of generated moves at depth 1, the sum over the generated
\* moves of perft of the position after the move at greater depths).
C9_PerftStartingPosition ==
    pc = "done" =>
        /\ depth = 0 => result = 1
        /\ depth = 1 => result = 20
        /\ depth = 2 => result = 400
        /\ depth = 3 => result = 8902

\* the depth-3 call from the starting position has returned
C9_Witness ==
    /\ pc = "done"
    /\ game = starting_position
    /\ depth = 3
    /\ result = 8902

\* C10: perft from the standard starting position returns 197281 at depth 4
\* and 4865609 at depth 5.
C10_PerftDeep ==
    pc = "done" =>
        /\ depth = 4 => result = 197281
        /\ depth = 5 => result = 4865609

\* the depth-4 call from the starting position has returned its 197281 nodes
C10_Witness ==
    /\ pc = "done"
    /\ game = starting_position
    /\ depth = 4
    /\ stack = <<>>
    /\ result = 197281

\* C11: for every square s and every subset b of the rook blocker mask of s,
\* the magic lookup rook_attacks(s, b) on the table built by
\* init_rook_attacks returns the bitboard of the ray-cast
\* rook_attacks_slow(s, b).
C11_RookMagicIsRayCast ==
    (pc = "call" /\ call.fn = "rook_attacks" /\ call.done)
        => call.ret = rook_attacks_slow(call.sq, call.occupied)

\* a rook lookup from a1 with every square of its mask occupied has returned
\* the two nearest squares
C11_Witness ==
    /\ pc = "call" /\ call.fn = "rook_attacks" /\ call.done
    /\ call.sq = 0
    /\ call.occupied = ROOK_MASKS[0]
    /\ call.ret = {1, 8}


\* C12: for every square s and every subset b of the bishop blocker mask of
\* s, the magic lookup bishop_attacks(s, b) on the table built by
\* init_bishop_attacks returns the bitboard of the ray-cast
\* bishop_attacks_slow(s, b).
C12_BishopMagicIsRayCast ==
    (pc = "call" /\ call.fn = "bishop_attacks" /\ call.done)
        => call.ret = bishop_attacks_slow(call.sq, call.occupied)

\* a bishop lookup from d4 with every square of its mask occupied has
\* returned the four diagonal neighbours
C12_Witness ==
    /\ pc = "call" /\ call.fn = "bishop_attacks" /\ call.done
    /\ call.sq = 27
    /\ call.occupied = BISHOP_MASKS[27]
    /\ call.ret = {18, 20, 34, 36}

\* the values of a sequence
Range(seq) == {seq[i] : i \in 1..Len(seq)}

\* C13: for every square and both magic records of it,
\* shift = 64 - popcount(mask), and the index computed from a blocker subset
\* of the mask lies in [0, 2^popcount(mask)) and differs on different subsets.
C13_IndexDistinctInRange ==
    (pc = "call" /\ call.fn = "magic_index" /\ call.done) =>
        LET fm == FancyMagics(call.kind)[call.sq + 1]
        IN  /\ fm.shift = 64 - popcount(fm.mask)
            /\ Range(call.ret) \subseteq 0..(Pow2(popcount(fm.mask)) - 1)
            /\ Cardinality(Range(call.ret)) = Len(call.ret)

\* the ray-cast of a piece kind
SlowAttacks(kind, sq, blockers) ==
    IF kind = "rook" THEN rook_attacks_slow(sq, blockers)
    ELSE bishop_attacks_slow(sq, blockers)

\* C14: the construction of the rook and bishop tables detects wrong magic
\* constants: when two blocker subsets of a square get the same index with
\* different ray-cast attack sets the build aborts, so a build that returns
\* has stored at the index of every blocker subset the ray-cast attack set of
\* that subset.
C14_BuildReturnsOnlyRightTables ==
    (pc = "call" /\ call.fn = "init_attacks" /\ call.done) =>
        \A b \in SUBSET call.fm.mask :
            call.ret[magic_index(b, call.fm.magic, call.fm.shift) + 1]
                = SlowAttacks(call.kind, call.sq, b)

\* the value a lookup reads from the completely built table
FromBuiltTable(fn, args) ==
    table_read(fn, initializer(static_of(fn)), args)

\* C15: when several threads make the first call to an attack lookup
\* concurrently, the initializer of each table runs exactly once (never twice,
\* and once when the table is there), the table of a complete cell is the
\* completely built table and stays so, and every call that has returned has
\* returned the value of the completely built table.
C15_InitializedExactlyOnce ==
    pc = "threads" =>
        /\ \A static \in Statics :
              /\ once[static].runs <= 1
              /\ once[static].state = "complete" =>
                    /\ once[static].runs = 1
                    /\ once[static].value = initializer(static)
        /\ \A t \in Threads :
              threads[t].pc = "done" =>
                  threads[t].ret = FromBuiltTable(threads[t].fn, threads[t].args)

\* all the threads made their first bishop lookup at the same time: all have
\* returned the attack set, and the initializer ran once
C15_Witness ==
    /\ pc = "threads"
    /\ \A t \in Threads :
          /\ threads[t].fn = "bishop_attacks"
          /\ threads[t].pc = "done"
          /\ threads[t].ret = {6, 9, 13, 18, 20, 34, 36, 41, 45, 48}
    /\ once["BISHOP_ATTACKS"].runs = 1

\* ------------------------------------------------------------------------
\* play from positions where the side to move is in check with an en-passant
\* target set, or gets there by a double pawn push
\* ------------------------------------------------------------------------
\* 8/8/r6K/1Pp5/8/8/8/7k w - c6 0 1
FenEpBlocksCheck ==
    GameOf(<< <<40, BR>>, <<47, WK>>, <<33, WP>>, <<34, BP>>, <<7, BK>> >>,
           White, FALSE, FALSE, FALSE, FALSE, 42)

\* 8/8/8/2pP4/8/8/6b1/k6K w - c6 0 1
FenEpBishopCheck ==
    GameOf(<< <<34, BP>>, <<35, WP>>, <<14, BB>>, <<0, BK>>, <<7, WK>> >>,
           White, FALSE, FALSE, FALSE, FALSE, 42)

\* 7k/8/8/2pP4/8/5n2/8/4K3 w - c6 0 1
FenEpKnightCheck ==
    GameOf(<< <<63, BK>>, <<34, BP>>, <<35, WP>>, <<21, BN>>, <<4, WK>> >>,
           White, FALSE, FALSE, FALSE, FALSE, 42)

\* 7k/3p4/8/4P3/4K3/8/8/8 b - - 0 1
FenDoublePushChecks ==
    GameOf(<< <<63, BK>>, <<51, BP>>, <<36, WP>>, <<28, WK>> >>,
           Black, FALSE, FALSE, FALSE, FALSE, NoSquare)

\* 2b4k/3p4/8/4P3/8/7K/8/8 b - - 0 1
FenDoublePushDiscovers ==
    GameOf(<< <<58, BB>>, <<63, BK>>, <<51, BP>>, <<36, WP>>, <<23, WK>> >>,
           Black, FALSE, FALSE, FALSE, FALSE, NoSquare)

\* 7K/8/8/3k4/3p4/8/4P3/8 w - - 0 1
FenWhiteDoublePushChecks ==
    GameOf(<< <<63, WK>>, <<35, BK>>, <<27, BP>>, <<12, WP>> >>,
           White, FALSE, FALSE, FALSE, FALSE, NoSquare)

EpSeeds ==
    {FenEpChecker, FenEpOnlyMove, FenEpBlocksCheck, FenEpBishopCheck,
     FenEpKnightCheck, FenDoublePushChecks, FenDoublePushDiscovers,
     FenWhiteDoublePushChecks}

EpInit ==
    /\ game \in EpSeeds
    /\ ply = 0
    /\ depth = 0
    /\ stack = <<>>
    /\ result = 0
    /\ pc = "play"
    /\ call = NoCall
    /\ settled

SpecEp == EpInit /\ [][MakeMove]_vars

\* ------------------------------------------------------------------------
\* games from the standard starting position: make_move on moves returned
\* by generate_legal_moves. An opening is played out move by move, and from
\* the position it reaches every generated move is played.
\* ------------------------------------------------------------------------
\* plies played after the opening
MaxGamePly == 2

\* the position after make_move on the moves i.. of a line, given as the
\* <<from, to>> of its moves, each a move generate_legal_moves returns
RECURSIVE Replay(_, _, _)
Replay(g, line, i) ==
    IF i > Len(line) THEN g
    ELSE LET mv == CHOOSE m \in MoveSet(generate_legal_moves(g)) :
                       m.from = line[i][1] /\ m.to = line[i][2]
         IN Replay(make_move(g, mv), line, i + 1)

\* 1. b3 g5 2. Bb2 Bh6
AfterLongDiagonalOpens ==
    Replay(starting_position,
           << <<9, 17>>, <<54, 38>>, <<2, 9>>, <<61, 47>> >>, 1)

\* .. 3. Nf3 Nf6 4. a3 Nd5: the bishop on b2 attacks the rook on h8
AfterKnightsDevelop ==
    Replay(AfterLongDiagonalOpens,
           << <<6, 21>>, <<62, 45>>, <<8, 16>>, <<45, 35>> >>, 1)

\* 1. e4 e5 2. Qh5 Nc6
AfterQueenSortie ==
    Replay(starting_position,
           << <<12, 28>>, <<52, 36>>, <<3, 39>>, <<57, 42>> >>, 1)

\* .. 3. Bc4 Nf6: queen and bishop attack f7
AfterBishopJoins ==
    Replay(AfterQueenSortie, << <<5, 26>>, <<62, 45>> >>, 1)

\* 1. e3 b5 2. Ke2 b4 3. Kd3 Bb7 4. Kc4 Bxg2 5. Kb5 Nc6 6. Ka6 e6 7. Kb7 Qh4
\* 8. Kxa8, every move a move generate_legal_moves returns: the white king
\* stands on Black's queenside corner. The position, written out:
\* K3kbnr/p1pp1ppp/2n1p3/8/1p5q/4P3/PPPP1PbP/RNBQ1BNR b kq - 0 8
AfterKingTakesRook ==
    WithClocks(
        GameOf(<< <<56, WK>>, <<60, BK>>, <<61, BB>>, <<62, BN>>, <<63, BR>>,
                  <<48, BP>>, <<50, BP>>, <<51, BP>>, <<53, BP>>, <<54, BP>>, <<55, BP>>,
                  <<42, BN>>, <<44, BP>>,
                  <<25, BP>>, <<31, BQ>>,
                  <<20, WP>>,
                  <<8, WP>>, <<9, WP>>, <<10, WP>>, <<11, WP>>, <<13, WP>>,
                  <<14, BB>>, <<15, WP>>,
                  <<0, WR>>, <<1, WN>>, <<2, WB>>, <<3, WQ>>, <<5, WB>>, <<6, WN>>,
                  <<7, WR>> >>,
               Black, FALSE, FALSE, TRUE, TRUE, NoSquare),
        <<0, 0>>, <<0, 8>>)

\* the positions the games continue from
Openings ==
    {starting_position, AfterKnightsDevelop, AfterBishopJoins, AfterKingTakesRook}

GameInit ==
    /\ game \in Openings
    /\ ply = 0
    /\ depth = 0
    /\ stack = <<>>
    /\ result = 0
    /\ pc = "game"
    /\ call = NoCall
    /\ settled

\* game.make_move(&mv) for a move mv of generate_legal_moves(&game); a clock
\* addition that overflows wraps or panics, as the build has it
PlayMove ==
    /\ pc = "game"
    /\ ply < MaxGamePly
    /\ KingMustExist(game)
    /\ \E mv \in MoveSet(generate_legal_moves(game)) :
          \/ /\ game' = make_move(game, mv)
             /\ ply' = ply + 1
             /\ pc' = pc
          \/ /\ make_move_panics(game, mv)
             /\ pc' = "panic"
             /\ UNCHANGED <<game, ply>>
    /\ UNCHANGED <<depth, stack, result>>
    /\ UNCHANGED aux

SpecGame == GameInit /\ [][PlayMove]_vars

\* ------------------------------------------------------------------------
\* play from positions with castling rights and rooks on the corners
\* ------------------------------------------------------------------------
\* Rn2k2r/8/8/8/8/8/8/R3K1Nr w KQkq - 0 1
FenFarCornerRooks ==
    GameOf(<< <<56, WR>>, <<57, BN>>, <<60, BK>>, <<63, BR>>,
              <<0, WR>>, <<4, WK>>, <<6, WN>>, <<7, BR>> >>,
           White, TRUE, TRUE, TRUE, TRUE, NoSquare)

\* r3k2r/p6p/8/8/8/8/P6P/R3K2R b KQkq - 0 1
FenCastlingBlack ==
    GameOf(<< <<56, BR>>, <<60, BK>>, <<63, BR>>, <<48, BP>>, <<55, BP>>,
              <<8, WP>>, <<15, WP>>, <<0, WR>>, <<4, WK>>, <<7, WR>> >>,
           Black, TRUE, TRUE, TRUE, TRUE, NoSquare)

RightsSeeds == {FenCastling, FenCastlingBlack, FenFarCornerRooks}

RightsInit ==
    /\ game \in RightsSeeds
    /\ ply = 0
    /\ depth = 0
    /\ stack = <<>>
    /\ result = 0
    /\ pc = "play"
    /\ call = NoCall
    /\ settled

SpecRights == RightsInit /\ [][MakeMove]_vars

\* ------------------------------------------------------------------------
\* rays.rs called directly: rook_attacks_slow and bishop_attacks_slow on a
\* square and a blocker bitboard
\* ------------------------------------------------------------------------
\* blocker bitboards handed to the ray casts from sq: every subset of the
\* blocker mask, alone and together with every square outside the mask (the
\* edge squares of the lines, the squares off the lines and sq itself)
RayBlockers(mask) ==
    {inner \cup outer : inner \in SUBSET mask, outer \in {EMPTY, Squares \ mask}}

RaysInit ==
    /\ game = starting_position
    /\ ply = 0
    /\ depth = 0
    /\ stack = <<>>
    /\ result = 0
    /\ pc = "rays"
    /\ settled
    /\ \E sq \in Squares :
          \/ \E b \in RayBlockers(ROOK_MASKS[sq]) :
                call = Lookup("rook_attacks_slow", sq, b)
          \/ \E b \in RayBlockers(BISHOP_MASKS[sq]) :
                call = Lookup("bishop_attacks_slow", sq, b)

RookSlow ==
    /\ pc = "rays"
    /\ call.fn = "rook_attacks_slow"
    /\ ~call.done
    /\ call' = [call EXCEPT !.done = TRUE,
                            !.ret = rook_attacks_slow(call.sq, call.occupied)]
    /\ UNCHANGED nocall

BishopSlow ==
    /\ pc = "rays"
    /\ call.fn = "bishop_attacks_slow"
    /\ ~call.done
    /\ call' = [call EXCEPT !.done = TRUE,
                            !.ret = bishop_attacks_slow(call.sq, call.occupied)]
    /\ UNCHANGED nocall

RaysNext == RookSlow \/ BishopSlow

SpecRays == RaysInit /\ [][RaysNext]_vars

\* ------------------------------------------------------------------------
\* bitboard.rs called directly: the four directional shifts of a bitboard
\* ------------------------------------------------------------------------
\* squares the shifted bitboards are made of: the corners, squares of each
\* edge and squares of the interior
ShiftSquares == {0, 7, 56, 63, 3, 60, 8, 15, 24, 39, 27, 36}
ShiftBitboards == SUBSET ShiftSquares \cup {ALL, FILE_A, FILE_H}
Directions == {"north", "south", "east", "west"}

Shift(fn, bb) == [fn |-> fn, bb |-> bb, done |-> FALSE, ret |-> EMPTY]

ShiftInit ==
    /\ game = starting_position
    /\ ply = 0
    /\ depth = 0
    /\ stack = <<>>
    /\ result = 0
    /\ pc = "shift"
    /\ settled
    /\ \E fn \in Directions, bb \in ShiftBitboards : call = Shift(fn, bb)

ShiftCall(fn, shifted) ==
    /\ pc = "shift"
    /\ call.fn = fn
    /\ ~call.done
    /\ call' = [call EXCEPT !.done = TRUE, !.ret = shifted]
    /\ UNCHANGED nocall

North == ShiftCall("north", north(call.bb))
South == ShiftCall("south", south(call.bb))
East == ShiftCall("east", east(call.bb))
West == ShiftCall("west", west(call.bb))

ShiftNext == North \/ South \/ East \/ West

SpecShift == ShiftInit /\ [][ShiftNext]_vars

\* ------------------------------------------------------------------------
\* Board API: any sequence of set_piece, remove_piece and move_piece calls
\* on Board::empty()
\* ------------------------------------------------------------------------
\* coordinates handed to the calls; NoSquare stands for a Coord that
\* StandardBoard::to_index rejects, which makes each call a no-op
BoardCoords == {0, 9, 63, NoSquare}
BoardPieces == {PieceNew(Pawn, White), PieceNew(King, White),
                PieceNew(Pawn, Black), PieceNew(Rook, Black)}

BoardInit ==
    /\ game = starting_position
    /\ ply = 0
    /\ depth = 0
    /\ stack = <<>>
    /\ result = 0
    /\ pc = "board"
    /\ call = NoCall
    /\ once = <<>>
    /\ threads = <<>>
    /\ board = BoardEmpty

boardonly == <<game, ply, depth, stack, result, pc, once, threads>>

SetPiece(coord, piece) ==
    /\ pc = "board"
    /\ board' = IF coord = NoSquare THEN board ELSE set_piece(board, coord, piece)
    /\ call' = [fn |-> "set_piece", coord |-> coord, piece |-> piece]
    /\ UNCHANGED boardonly

RemovePiece(coord) ==
    /\ pc = "board"
    /\ board' = IF coord = NoSquare THEN board ELSE remove_piece(board, coord)
    /\ call' = [fn |-> "remove_piece", coord |-> coord]
    /\ UNCHANGED boardonly

\* remove_piece(from)? returns None for a rejected from; remove_piece(to) and
\* set_piece(to, piece) do nothing for a rejected to, so the piece is dropped
MovePiece(from, to) ==
    /\ pc = "board"
    /\ board' = IF from = NoSquare THEN board
                ELSE IF to = NoSquare
                     THEN IF board.squares[from] = NoPiece THEN board
                          ELSE remove_piece(board, from)
                     ELSE move_piece(board, from, to)
    /\ call' = [fn |-> "move_piece", from |-> from, to |-> to]
    /\ UNCHANGED boardonly

BoardNext ==
    \/ \E coord \in BoardCoords, piece \in BoardPieces : SetPiece(coord, piece)
    \/ \E coord \in BoardCoords : RemovePiece(coord)
    \/ \E from \in BoardCoords, to \in BoardCoords : MovePiece(from, to)

SpecBoard == BoardInit /\ [][BoardNext]_vars

\* the home corners of the rooks of a colour: a1 and h1, a8 and h8
QueensideCorner(c) == IF c = White THEN 0 ELSE 56
KingsideCorner(c) == IF c = White THEN 7 ELSE 63

\* what C16 asks of make_move for the move mv made in g, giving g2
RightsClearedBy(g, mv, g2) ==
    LET moved == piece_at(g.board, mv.from)
        captured == piece_at(g.board, mv.to)
    IN  /\ piece_type(moved) = King =>
               castling_rights(g2, color(moved)) = CastlingNONE
        /\ (piece_type(moved) = Rook /\ mv.from = QueensideCorner(color(moved)))
               => ~castling_rights(g2, color(moved)).queenside
        /\ (piece_type(moved) = Rook /\ mv.from = KingsideCorner(color(moved)))
               => ~castling_rights(g2, color(moved)).kingside
        /\ (captured # NoPiece /\ piece_type(captured) = Rook
                /\ mv.to = QueensideCorner(color(captured)))
               => ~castling_rights(g2, color(captured)).queenside
        /\ (captured # NoPiece /\ piece_type(captured) = Rook
                /\ mv.to = KingsideCorner(color(captured)))
               => ~castling_rights(g2, color(captured)).kingside

\* C16: after make_move(m), a king move has cleared both castling rights of
\* its colour, a rook move away from its home corner has cleared the right of
\* its colour for that corner, and the capture of a rook standing on its home
\* corner has cleared the right of the captured rook's colour for that
\* corner.
C16_CastlingRightsCleared ==
    (pc = "play" /\ KingMustExist(game)) =>
        \A mv \in MoveSet(generate_legal_moves(game)) :
            RightsClearedBy(game, mv, make_move(game, mv))

\* C17: after any sequence of set_piece, remove_piece and move_piece calls
\* on Board::empty(), square i is in white_pieces (black_pieces) iff
\* squares[i] holds a white (black) piece, white_pieces and black_pieces are
\* disjoint, and occupied is their union.
C17_BitboardsAgreeWithSquares ==
    pc = "board" =>
        /\ \A i \in Squares :
              /\ i \in board.white_pieces <=>
                    (board.squares[i] # NoPiece /\ color(board.squares[i]) = White)
              /\ i \in board.black_pieces <=>
                    (board.squares[i] # NoPiece /\ color(board.squares[i]) = Black)
        /\ board.white_pieces \cap board.black_pieces = EMPTY
        /\ board.occupied = board.white_pieces \cup board.black_pieces

\* u lies strictly between s and t on the straight line through them
StrictlyBetween(s, t, u) ==
    LET df == file_of(t) - file_of(s)
        dr == rank_of(t) - rank_of(s)
        uf == file_of(u) - file_of(s)
        ur == rank_of(u) - rank_of(s)
    IN  /\ uf * dr = ur * df
        /\ 0 < uf * df + ur * dr
        /\ uf * df + ur * dr < df * df + dr * dr

SameRankOrFile(s, t) == rank_of(s) = rank_of(t) \/ file_of(s) = file_of(t)

SameDiagonal(s, t) ==
    \/ file_of(t) - file_of(s) = rank_of(t) - rank_of(s)
    \/ file_of(t) - file_of(s) = rank_of(s) - rank_of(t)

Unblocked(s, t, b) == \A u \in b : ~StrictlyBetween(s, t, u)

\* C18: rook_attacks_slow(s, b) is exactly the set of squares t # s on the
\* rank or file of s with no square of b strictly between s and t, and
\* bishop_attacks_slow(s, b) is the same set on the two diagonals through s;
\* so the first blocker of a ray is included, nothing beyond it is, and no
\* ray wraps across a board edge.
C18_SlowAttacksAreUnblockedLines ==
    (pc = "rays" /\ call.done) =>
        /\ call.fn = "rook_attacks_slow" =>
              call.ret = {t \in Squares \ {call.sq} :
                             /\ SameRankOrFile(call.sq, t)
                             /\ Unblocked(call.sq, t, call.occupied)}
        /\ call.fn = "bishop_attacks_slow" =>
              call.ret = {t \in Squares \ {call.sq} :
                             /\ SameDiagonal(call.sq, t)
                             /\ Unblocked(call.sq, t, call.occupied)}

\* the ray cast of a rook on d4 with blockers on b4, c4, f4, d2 and d6 has
\* returned c4, e4, f4, d3, d2, d5 and d6: it stops on the first blocker of
\* each ray
C18_Witness ==
    /\ pc = "rays" /\ call.fn = "rook_attacks_slow" /\ call.done
    /\ call.sq = 27
    /\ call.occupied = {25, 26, 29, 11, 43}
    /\ call.ret = {26, 28, 29, 19, 11, 35, 43}

\* C19: east(b) = {s+1 : s in b, file(s) < 7}, west(b) = {s-1 : s in b,
\* file(s) > 0}, north(b) = {s+8 : s in b, rank(s) < 7} and south(b) =
\* {s-8 : s in b, rank(s) > 0}; no square of file h appears on file a after
\* east and no square of file a appears on file h after west.
C19_ShiftsStepAndDrop ==
    (pc = "shift" /\ call.done) =>
        /\ call.fn = "east" =>
              /\ call.ret = {s + 1 : s \in {x \in call.bb : file_of(x) < 7}}
              /\ \A t \in call.ret : file_of(t) # 0
        /\ call.fn = "west" =>
              /\ call.ret = {s - 1 : s \in {x \in call.bb : file_of(x) > 0}}
              /\ \A t \in call.ret : file_of(t) # 7
        /\ call.fn = "north" =>
              call.ret = {s + 8 : s \in {x \in call.bb : rank_of(x) < 7}}
        /\ call.fn = "south" =>
              call.ret = {s - 8 : s \in {x \in call.bb : rank_of(x) > 0}}

\* east of {h1, d4, h8} has returned {e4}: the squares of file h were dropped
C19_Witness ==
    /\ pc = "shift" /\ call.fn = "east" /\ call.done
    /\ call.bb = {7, 27, 63}
    /\ call.ret = {28}

\* the pawns of the side to move that attack the en-passant target
EpCapturers(g) ==
    {sq \in Squares :
        /\ g.board.squares[sq] = PieceNew(Pawn, g.side_to_move)
        /\ g.en_passant \in pawn_attacks(sq, g.side_to_move)}

\* the square behind the en-passant target: where the double-pushed pawn is
EpCapturedSquare(g) ==
    g.en_passant - (IF g.side_to_move = White THEN 8 ELSE -8)

\* the side to move is in check from one piece and that piece is the enemy
\* pawn behind the en-passant target
CheckedByDoublePushedPawn(g) ==
    /\ g.en_passant # NoSquare
    /\ MoveGeneratorNew(g).checkers = {EpCapturedSquare(g)}
    /\ g.board.squares[EpCapturedSquare(g)]
           = PieceNew(Pawn, opposite(g.side_to_move))

\* the side to move is in check from one piece, which is another piece
CheckedByAnotherPiece(g) ==
    /\ g.en_passant # NoSquare
    /\ popcount(MoveGeneratorNew(g).checkers) = 1
    /\ ~CheckedByDoublePushedPawn(g)

\* C20: in check from exactly one piece that is the pawn that just made a
\* double push, the en-passant capture of that pawn by an unpinned pawn is
\* generated although its landing square is not in the check mask; in check
\* from any other single piece, an en-passant capture is generated only if
\* its landing square is in the check mask.
C20_EnPassantUnderSingleCheck ==
    (pc = "play" /\ KingMustExist(game)) =>
        LET gen == MoveGeneratorNew(game)
            moves == MoveSet(generate_legal_moves(game))
        IN  /\ CheckedByDoublePushedPawn(game) =>
                  \A sq \in EpCapturers(game) :
                      gen.pin_masks[sq] = ALL =>
                          /\ with_flags(sq, game.en_passant, EnPassant) \in moves
                          /\ game.en_passant \notin gen.check_mask
            /\ CheckedByAnotherPiece(game) =>
                  \A mv \in moves :
                      is_en_passant(mv) => mv.to \in gen.check_mask

\* Black has just played d7-d5 with check on the king on e4, and the capture
\* e5xd6 en passant is among White's moves
C20_Witness ==
    /\ pc = "play" /\ ply = 1
    /\ game.side_to_move = White
    /\ game.en_passant = 43
    /\ CheckedByDoublePushedPawn(game)
    /\ EpCapturers(game) = {36}
    /\ with_flags(36, 43, EnPassant) \in MoveSet(generate_legal_moves(game))

\* the occupancy after the en-passant capture by the pawn on sq: the
\* capturing pawn and the captured pawn are gone, a pawn stands on the target
OccupancyAfterEp(g, sq) ==
    ((g.board.occupied \ {sq}) \ {EpCapturedSquare(g)}) \cup {g.en_passant}

\* on that occupancy an enemy rook or queen attacks the mover's king along
\* the king's rank
RankAttackAfterEp(g, sq) ==
    LET king == find_king(g.board, g.side_to_move)
    IN  \E t \in Squares \ {king} :
            /\ rank_of(t) = rank_of(king)
            /\ g.board.squares[t] \in {PieceNew(Rook, opposite(g.side_to_move)),
                                       PieceNew(Queen, opposite(g.side_to_move))}
            /\ Unblocked(king, t, OccupancyAfterEp(g, sq))

\* how often the generated list holds a move from sq to the en-passant target
EpMoveCount(g, sq) ==
    LET moves == generate_legal_moves(g)
    IN  Cardinality({i \in 1..Len(moves) :
                        moves[i].from = sq /\ moves[i].to = g.en_passant})

\* C21: an en-passant capture is not generated when, on the occupancy after
\* the capture, an enemy rook or queen attacks the mover's king along its
\* rank; when there is no such attack and the check-mask and pin-mask tests
\* pass, exactly one move from the pawn to the target is generated and it is
\* flagged EnPassant.
C21_EnPassantRankDiscovery ==
    (pc = "play" /\ KingMustExist(game) /\ game.en_passant # NoSquare) =>
        LET gen == MoveGeneratorNew(game)
            moves == MoveSet(generate_legal_moves(game))
        IN  \A sq \in EpCapturers(game) :
                /\ RankAttackAfterEp(game, sq) => EpMoveCount(game, sq) = 0
                /\ (/\ ~RankAttackAfterEp(game, sq)
                    /\ gen.check_mask
                         \cap {game.en_passant, EpCapturedSquare(game)} # {}
                    /\ game.en_passant \in gen.pin_masks[sq])
                      => /\ EpMoveCount(game, sq) = 1
                         /\ with_flags(sq, game.en_passant, EnPassant) \in moves

\* 8/8/8/8/k2Pp2Q/8/8/3K4 b - d3: the capture e4xd3 would open the fourth
\* rank between the queen on h4 and the king on a4, and no move of the pawn
\* on e4 to d3 is generated
C21_Witness ==
    /\ pc = "play"
    /\ game = FenEpRankPin
    /\ EpCapturers(game) = {28}
    /\ RankAttackAfterEp(game, 28)
    /\ EpMoveCount(game, 28) = 0

\* the destinations of the pushes and captures of the pawn on sq that pass
\* the check-mask and pin-mask test
PawnDestinations(g, sq) ==
    LET gen == MoveGeneratorNew(g)
        forward == IF g.side_to_move = White THEN 8 ELSE -8
        push == IF sq + forward \in Squares /\ sq + forward \notin g.board.occupied
                THEN {sq + forward} ELSE {}
        captures == pawn_attacks(sq, g.side_to_move)
                        \cap pieces_of_color(g.board, opposite(g.side_to_move))
    IN  (push \cup captures) \cap gen.check_mask \cap gen.pin_masks[sq]

PromotionRank(c) == IF c = White THEN 7 ELSE 0

\* the flags of the generated moves from `from` to `to`, in list order
FlagsOfPair(g, from, to) ==
    LET moves == generate_legal_moves(g)
    IN  SelectSeq([i \in 1..Len(moves) |->
                     IF moves[i].from = from /\ moves[i].to = to
                     THEN moves[i].flags ELSE "other pair"],
                  LAMBDA f : f # "other pair")

\* C22: for every pawn push or capture that passes the check-mask and
\* pin-mask test and lands on the promotion rank, exactly four moves are
\* generated for its from/to pair, flagged Promotion with Queen, Rook, Bishop
\* and Knight in this order, and no Normal move; pawn moves to any other rank
\* are never flagged Promotion.
C22_PromotionsInFours ==
    (pc = "play" /\ KingMustExist(game)) =>
        \A sq \in Squares :
            game.board.squares[sq] = PieceNew(Pawn, game.side_to_move) =>
                /\ \A to \in PawnDestinations(game, sq) :
                      rank_of(to) = PromotionRank(game.side_to_move) =>
                          FlagsOfPair(game, sq, to)
                              = << Promotion(Queen), Promotion(Rook),
                                   Promotion(Bishop), Promotion(Knight) >>
                /\ \A mv \in MoveSet(generate_legal_moves(game)) :
                      (mv.from = sq /\ rank_of(mv.to) # PromotionRank(game.side_to_move))
                          => ~is_promotion(mv)

\* after a white move in the promotions position Black's pawn on b2 can
\* capture the rook on a1, and the four promotions b2xa1 are generated
C22_Witness ==
    /\ pc = "play" /\ ply = 1
    /\ game.side_to_move = Black
    /\ game.board.squares[9] = PieceNew(Pawn, Black)
    /\ 0 \in PawnDestinations(game, 9)
    /\ Len(FlagsOfPair(game, 9, 0)) = 4

\* the squares of the pieces of the side to move that are pinned to their king
RefPinned(g) == {pp[1] : pp \in RefPins(g)}

\* C23: a knight of the side to move that is pinned to its king has no
\* generated move; a knight that is not pinned has exactly the moves to
\* knight_attacks(from) minus the own pieces, intersected with the check
\* mask.
C23_KnightMoves ==
    (pc = "play" /\ KingMustExist(game)) =>
        LET gen == MoveGeneratorNew(game)
            moves == MoveSet(generate_legal_moves(game))
            own == RefPiecesOf(game.board, game.side_to_move)
        IN  \A sq \in Squares :
                game.board.squares[sq] = PieceNew(Knight, game.side_to_move) =>
                    {mv \in moves : mv.from = sq}
                        = IF sq \in RefPinned(game) THEN {}
                          ELSE {MoveNew(sq, to) :
                                   to \in (knight_attacks(sq) \ own)
                                             \cap gen.check_mask}

\* 4r2k/8/8/b7/7q/8/3BRN2/4K3 w: the knight on f2 is pinned by the queen on
\* h4 and has no move, although the king is not in check and d1, d3, e4, g4,
\* h1 and h3 are free
C23_Witness ==
    /\ pc = "play"
    /\ game = FenPins
    /\ 13 \in RefPinned(game)
    /\ MoveGeneratorNew(game).check_mask = ALL
    /\ knight_attacks(13) \ RefPiecesOf(game.board, White) # {}
    /\ \A mv \in MoveSet(generate_legal_moves(game)) : mv.from # 13

\* the enemy pieces that attack the king of the side to move
RefCheckers(g) ==
    RefAttackers(g.board, RefKingSq(g.board, g.side_to_move),
                 opposite(g.side_to_move))

\* C24: after MoveGenerator::new, check_mask is the universal set when no
\* enemy piece checks the king; with exactly one checker it is the checker's
\* square for a pawn or knight, and the checker's square plus exactly the
\* squares strictly between checker and king for a bishop, rook or queen;
\* with two or more checkers it is empty.
C24_CheckMask ==
    (pc = "play" /\ KingMustExist(game)) =>
        LET mask == MoveGeneratorNew(game).check_mask
            king == RefKingSq(game.board, game.side_to_move)
            checkers == RefCheckers(game)
        IN  /\ checkers = {} => mask = ALL
            /\ Cardinality(checkers) >= 2 => mask = EMPTY
            /\ \A sq \in checkers :
                  checkers = {sq} =>
                      mask = IF piece_type(game.board.squares[sq]) \in {Pawn, Knight}
                             THEN {sq}
                             ELSE {sq} \cup {u \in Squares : StrictlyBetween(sq, king, u)}

\* 4k3/8/8/8/4N3/8/8/r3K3 w: the rook on a1 checks the king on e1 and the
\* check mask is a1, b1, c1 and d1
C24_Witness ==
    /\ pc = "play"
    /\ game = FenKnightCheck
    /\ RefCheckers(game) = {0}
    /\ MoveGeneratorNew(game).check_mask = {0, 1, 2, 3}

\* C25: after MoveGenerator::new, pin_masks[s] differs from the universal
\* set exactly for the squares s of the pieces of the side to move that are
\* the only piece between their king and an enemy slider matching the ray
\* (rook or queen on ranks and files, bishop or queen on diagonals); for such
\* s the mask contains every square strictly between king and pinner and the
\* pinner's square, and no square off the segment from king to pinner. With
\* two own pieces in between, or another first enemy piece, nothing on the
\* ray is pinned.
C25_PinMasks ==
    (pc = "play" /\ KingMustExist(game)) =>
        LET masks == MoveGeneratorNew(game).pin_masks
            king == RefKingSq(game.board, game.side_to_move)
        IN  /\ {s \in Squares : masks[s] # ALL} = RefPinned(game)
            /\ \A pp \in RefPins(game) :
                  /\ RefBetween(king, pp[2]) \cup {pp[2]} \subseteq masks[pp[1]]
                  /\ masks[pp[1]] \subseteq RefBetween(king, pp[2]) \cup {pp[2], king}

\* 4r2k/8/8/b7/7q/8/3BRN2/4K3 w: bishop d2, rook e2 and knight f2 are pinned
\* by the bishop on a5, the rook on e8 and the queen on h4; the mask of the
\* knight is the diagonal from e1 to h4
C25_Witness ==
    /\ pc = "play"
    /\ game = FenPins
    /\ RefPinned(game) = {11, 12, 13}
    /\ MoveGeneratorNew(game).pin_masks[13] = {4, 13, 22, 31}
    /\ MoveGeneratorNew(game).pin_masks[0] = ALL

\* the square next to the king on the far side of sq, on the line from sq
\* through the king; the empty set when that square is off the board
BeyondKing(sq, king) ==
    LET df == signum(file_of(king) - file_of(sq))
        dr == signum(rank_of(king) - rank_of(sq))
    IN  IF InBoard(file_of(king) + df, rank_of(king) + dr)
        THEN {(rank_of(king) + dr) * 8 + file_of(king) + df}
        ELSE {}

\* the enemy bishops, rooks and queens that check the king along a ray
RefSliderCheckers(g) ==
    {sq \in RefCheckers(g) :
        piece_type(g.board.squares[sq]) \in {Bishop, Rook, Queen}}

\* the generated moves of the king that are not castling moves
KingSteps(g) ==
    LET king == RefKingSq(g.board, g.side_to_move)
    IN  {mv \in MoveSet(generate_legal_moves(g)) :
            mv.from = king /\ ~is_castling(mv)}

\* C26: enemy_attacks is the union of the attack sets of all enemy pieces,
\* the slider attacks taken on the occupancy without the mover's king; when
\* an enemy rook, bishop or queen checks the king along a ray, the square
\* right beyond the king on that ray is in enemy_attacks and no king move to
\* it is generated; the generated king moves are exactly king_attacks(king
\* square) minus own pieces minus enemy_attacks, whatever the check mask and
\* the pin masks are.
C26_EnemyAttacksThroughKing ==
    (pc = "play" /\ KingMustExist(game)) =>
        LET gen == MoveGeneratorNew(game)
            b == game.board
            king == RefKingSq(b, game.side_to_move)
            enemies == RefPiecesOf(b, opposite(game.side_to_move))
            own == RefPiecesOf(b, game.side_to_move)
        IN  /\ gen.enemy_attacks
                  = UNION {RefAttackSet(b, sq, RefOccupied(b) \ {king}) :
                              sq \in enemies}
            /\ \A sq \in RefSliderCheckers(game) :
                  /\ BeyondKing(sq, king) \subseteq gen.enemy_attacks
                  /\ \A mv \in KingSteps(game) : mv.to \notin BeyondKing(sq, king)
            /\ KingSteps(game)
                  = {MoveNew(king, to) :
                        to \in (king_attacks(king) \ own) \ gen.enemy_attacks}

\* 4k3/8/8/8/4N3/8/8/r3K3 w: the rook on a1 checks the king on e1; f1, right
\* beyond the king, is empty and next to the king, it is in enemy_attacks and
\* the king has moves, none of them to f1
C26_Witness ==
    /\ pc = "play"
    /\ game = FenKnightCheck
    /\ RefSliderCheckers(game) = {0}
    /\ BeyondKing(0, 4) = {5}
    /\ 5 \in MoveGeneratorNew(game).enemy_attacks
    /\ KingSteps(game) # {}
    /\ \A mv \in KingSteps(game) : mv.to # 5

\* mv moves a pawn of g two ranks along its file
PawnMovesTwoRanks(g, mv) ==
    /\ g.board.squares[mv.from] \in {PieceNew(Pawn, White), PieceNew(Pawn, Black)}
    /\ file_of(mv.to) = file_of(mv.from)
    /\ rank_of(mv.to) - rank_of(mv.from) \in {2, -2}

\* the square between from and to of such a move
SkippedSquare(mv) == (mv.from + mv.to) \div 2

\* C27: after make_move(m) the en-passant target is Some(t) exactly when m
\* moved a pawn two ranks along its file, and then t is the square the pawn
\* skipped; after every other move (castling, en passant and promotion
\* included) it is None, so a target never survives more than one ply.
C27_EnPassantTarget ==
    (pc = "play" /\ KingMustExist(game)) =>
        \A mv \in MoveSet(generate_legal_moves(game)) :
            LET after == make_move(game, mv)
            IN  /\ after.en_passant
                      = IF PawnMovesTwoRanks(game, mv) THEN SkippedSquare(mv)
                        ELSE NoSquare
                /\ game.en_passant # NoSquare
                      => after.en_passant # game.en_passant

\* after 1. e4 from the starting position the target is e3, and every reply
\* of Black that is not a double push clears it
C27_Witness ==
    /\ pc = "play" /\ ply = 1
    /\ game.side_to_move = Black
    /\ game.board.squares[28] = PieceNew(Pawn, White)
    /\ game.board.squares[12] = NoPiece
    /\ game.en_passant = 20
    /\ \E mv \in MoveSet(generate_legal_moves(game)) :
          make_move(game, mv).en_passant = NoSquare

\* the first square of the back rank of a colour
BackRank(c) == IF c = White THEN 0 ELSE 56

\* the king of colour c stands on the e-file square of its back rank and a
\* rook of colour c stands on the corner of the given file (0 or 7)
KingAndRookAtHome(g, c, corner_file) ==
    /\ g.board.squares[BackRank(c) + 4] = PieceNew(King, c)
    /\ g.board.squares[BackRank(c) + corner_file] = PieceNew(Rook, c)

\* C28: in every position reached from the standard starting position by
\* make_move on generated moves, every generated castling move has the
\* mover's king on the e-file square of its back rank and a rook of the
\* mover's colour on the corner of its side; equivalently, a held castling
\* right implies that king and rook still stand on their home squares.
C28_CastlingNeedsKingAndRook ==
    (pc = "game" /\ KingMustExist(game)) =>
        /\ \A mv \in MoveSet(generate_legal_moves(game)) :
              /\ mv.flags = CastleKingside
                    => KingAndRookAtHome(game, game.side_to_move, 7)
              /\ mv.flags = CastleQueenside
                    => KingAndRookAtHome(game, game.side_to_move, 0)
        /\ \A c \in {White, Black} :
              /\ castling_rights(game, c).kingside => KingAndRookAtHome(game, c, 7)
              /\ castling_rights(game, c).queenside => KingAndRookAtHome(game, c, 0)

\* C29: in every position reached from the standard starting position by
\* make_move on generated moves the board holds exactly one white king and
\* exactly one black king, and no generated move captures a king, so
\* MoveGenerator::new finds the king of the side to move.
C29_OneKingEach ==
    pc = "game" =>
        /\ Cardinality(RefKings(game.board, White)) = 1
        /\ Cardinality(RefKings(game.board, Black)) = 1
        /\ KingMustExist(game)
        /\ \A mv \in MoveSet(generate_legal_moves(game)) :
              game.board.squares[mv.to] \notin {PieceNew(King, White),
                                               PieceNew(King, Black)}

\* the castling right of colour c for a side ("kingside" or "queenside")
RightOf(g, c, side) ==
    IF side = "kingside" THEN castling_rights(g, c).kingside
    ELSE castling_rights(g, c).queenside

\* the home corner of the rook of colour c of that side
HomeCorner(c, side) ==
    IF side = "kingside" THEN KingsideCorner(c) ELSE QueensideCorner(c)

\* mv, made in g, moves the king of colour c, moves a rook of colour c away
\* from the corner, or captures the rook of colour c on the corner
MayChangeRight(g, mv, c, side) ==
    \/ g.board.squares[mv.from] = PieceNew(King, c)
    \/ /\ g.board.squares[mv.from] = PieceNew(Rook, c)
       /\ mv.from = HomeCorner(c, side)
    \/ /\ g.board.squares[mv.to] = PieceNew(Rook, c)
       /\ mv.to = HomeCorner(c, side)

\* C30: make_move(m) leaves the kingside and the queenside castling right of
\* a colour unchanged unless m moves the king of that colour, moves a rook of
\* that colour away from that colour's own home corner, or captures the rook
\* on that corner; a white rook leaving a8 or h8 and a black rook leaving a1
\* or h1 change no right.
C30_CastlingRightsFrame ==
    (pc = "play" /\ KingMustExist(game)) =>
        \A mv \in MoveSet(generate_legal_moves(game)) :
            \A c \in {White, Black}, side \in {"kingside", "queenside"} :
                RightOf(make_move(game, mv), c, side) # RightOf(game, c, side)
                    => MayChangeRight(game, mv, c, side)

====
